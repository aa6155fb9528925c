---------------------------- MODULE Configuration ----------------------------
(***************************************************************************)
(* config/config.go: what Run makes of its configuration file.  The file   *)
(* is a sequence of lines, a line a name and a value; comments and blank   *)
(* lines, which are skipped, are left out.  A value is a token that stands *)
(* for its text; only the texts that some code tells apart have one of     *)
(* their own.                                                              *)
(***************************************************************************)
EXTENDS Sequences, SequencesExt

CONSTANTS
  AgentToken,       \* the environment variable AGENT_TOKEN, "" if it is not set
  ValidSnetRegions  \* the values allowed for monitoring_snet_region

\* DefineConfigEntries
Entry == {"monitoring_id", "monitoring_token", "monitoring_private_zones", "monitoring_endpoints",
          "monitoring_snet_region", "monitoring_proxy_url", "prometheus_uri", "statsd_endpoint"}

\* What is returned when a line or the whole is refused.
Refused == [refused |-> TRUE]

\* A name without a value.
NoValue == "no value"

NewConfig ==
  [values     |-> [e \in Entry |-> IF e = "monitoring_token" THEN AgentToken
                                   ELSE IF e = "monitoring_id" THEN "-poller-" ELSE ""],
   UseSrv     |-> TRUE,
   SrvQueries |-> "default"]

IsAllowed(line) == line[1] = "monitoring_snet_region" => line[2] \in ValidSnetRegions

\* url.ParseRequestURI; the other entries take any text.
IsParsed(line) == line[1] = "monitoring_proxy_url" => line[2] # "malformed"

\* ParseFields, the assignment and the tweak of monitoring_endpoints; a name that is no
\* entry is ignored, and so is everything after a line that was refused.
ParseFields(cfg, line) ==
  IF cfg = Refused \/ line[2] = NoValue THEN Refused
  ELSE IF line[1] \notin Entry THEN cfg
  ELSE IF ~IsAllowed(line) \/ ~IsParsed(line) THEN Refused
  ELSE [cfg EXCEPT !.values[line[1]] = line[2],
                   !.UseSrv = @ /\ line[1] # "monitoring_endpoints"]

\* The queries of the ServiceNet replace the default ones.
PostProcess(cfg) ==
  IF cfg # Refused /\ cfg.values["monitoring_snet_region"] # ""
  THEN [cfg EXCEPT !.SrvQueries = "snet"] ELSE cfg

LoadFromFile(file) == PostProcess(FoldLeft(ParseFields, NewConfig, file))

\* A token and at least one zone.
Validate(cfg) ==
  /\ cfg # Refused
  /\ cfg.values["monitoring_private_zones"] # ""
  /\ cfg.values["monitoring_token"] # ""

=============================================================================
