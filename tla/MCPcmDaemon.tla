---------------------------- MODULE MCPcmDaemon ----------------------------
(* Two daemons and a client; sockets 0 and 2 are online. *)
EXTENDS PcmDaemon

MCOnlineSockets == <<0, 2>>
MCOptions == {[mode |-> "difference", subscribers |-> {"core", "memory", "qpi"}, group |-> "none"],
              [mode |-> "absolute", subscribers |-> {"core", "qpi"}, group |-> "none"],
              [mode |-> "difference", subscribers |-> {"memory"}, group |-> "unknown"]}
=============================================================================
