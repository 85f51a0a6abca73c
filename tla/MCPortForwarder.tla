---- MODULE MCPortForwarder ----
(* An instance of PortForwarder: two servers that can have one port, and *)
(* one with a port of its own.                                           *)
EXTENDS PortForwarder, TLC

MCPortOf == "1-80" :> 80 @@ "2-80" :> 80 @@ "3-90" :> 90

====
