------------------------------- MODULE MCPoller -------------------------------
(* Model-checking instance of Poller: one host, one timer loop. *)
EXTENDS Poller

CONSTANTS h1, l1

MCHost == {h1}
MCLoop == {l1}

Basic == << <<"monitoring_token", "token">>, <<"monitoring_private_zones", "zone">> >>

\* Addresses and statsd; SRV queries and the pusher; a gateway that is no URI; and files
\* that are refused: a region that does not exist, an entry without a value, no zone.
MCFile ==
  { Basic \o << <<"monitoring_endpoints", "address">>, <<"statsd_endpoint", "address">> >>,
    Basic \o << <<"prometheus_uri", "srv">>, <<"monitoring_snet_region", "region">> >>,
    Basic \o << <<"prometheus_uri", "malformed">>, <<"unknown", "text">> >>,
    Basic \o << <<"monitoring_snet_region", "nowhere">> >>,
    Basic \o << <<"monitoring_proxy_url", "malformed">> >>,
    Basic \o << <<"statsd_endpoint", NoValue>> >>,
    << <<"monitoring_token", "token">> >> }
=============================================================================
