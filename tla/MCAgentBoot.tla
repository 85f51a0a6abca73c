---- MODULE MCAgentBoot ----
(* Instances of AgentBoot: the host's /init, one of the same second, an older *)
(* one and one without a timestamp, whose variable os.environ refuses; two of *)
(* them bring tokens.                                                         *)
EXTENDS AgentBoot, TLC

Given(values) == [r \in Requests |-> values[r]]

MCStamp == Given("host" :> 2 @@ "twin" :> 2 @@ "older" :> 1 @@ "plain" :> 0)
MCSets == Given(
  "host" :> {"key", "url"} @@ "twin" :> {"key", "url"} @@
  "older" :> {"key", "url"} @@ "plain" :> {"key"})
MCRefused == [r \in Requests |-> IF r = "plain" THEN {"key"} ELSE {}]
MCToken == Given("host" :> "none" @@ "twin" :> "none" @@ "older" :> "a" @@ "plain" :> "b")

====
