--------------------------------- MODULE MCBus ---------------------------------
(* Values for the constants of Bus in its runs. *)
EXTENDS Bus

Sets(modes) == [op : {"set"}, mode : modes]
Confirms(modes) == [op : {"confirm"}, mode : modes]
Read == [op |-> "read", mode |-> NoMode]
Raw == [op |-> "raw", mode |-> NoMode]

\* The tray reads and confirms, another program sets modes and sends commands of its own.
TrayAndCli ==
  [p \in Client |-> IF p = "tray" THEN {Read} \cup Confirms(Mode)
                    ELSE Sets(Mode \ Ignored) \cup {Raw}]
================================================================================
