---------------------------- MODULE RemoteClient ----------------------------
(***************************************************************************)
(* What RemoteClient (clients/remote_client.h) promises to the pool, the   *)
(* download thread and the content provider, which call one operation at a *)
(* time: a connection that IsConnected reports was really made, a transfer *)
(* in Exact that returns 1 has handed over exactly the bytes asked for,    *)
(* and after Quit the client is not connected.                             *)
(***************************************************************************)
EXTENDS Naturals

CONSTANTS
  Wants,   (* lengths a transfer may be asked for                           *)
  Exact    (* operations whose success promises the whole length            *)

VARIABLES
  connected,  (* IsConnected()                                              *)
  call,       (* operation that is running, or "none"                       *)
  want,       (* length it was asked for                                    *)
  got,        (* bytes it has handed over                                   *)
  ret         (* what the last operation returned                           *)

vars == <<connected, call, want, got, ret>>

(* "Command" stands for those that move no file.                           *)
Operations == {"Connect", "Get", "GetRange", "Command", "Quit"}

Init == connected = FALSE /\ call = "none" /\ want = 0 /\ got = 0 /\ ret = 0

Begin ==
  /\ call = "none"
  /\ call' \in Operations /\ want' \in Wants /\ got' = 0
  /\ UNCHANGED <<connected, ret>>

(* An operation that fails before it does anything.                        *)
Refuse ==
  /\ call = "none"
  /\ want' \in Wants /\ got' = 0 /\ ret' = 0
  /\ UNCHANGED <<connected, call>>

Transfer ==
  /\ call \in {"Get", "GetRange"}
  /\ got' \in Nat /\ got' > got
  /\ UNCHANGED <<connected, call, want, ret>>

Return ==
  /\ call # "none" /\ call' = "none" /\ ret' \in {0, 1}
  /\ ret' = 1 /\ call \in Exact => got = want
  /\ CASE call = "Connect" -> connected' \in BOOLEAN /\ (connected' => ret' = 1)
       [] call = "Quit" -> connected' = FALSE
       [] OTHER -> connected' = connected
  /\ UNCHANGED <<want, got>>

Next == Begin \/ Refuse \/ Transfer \/ Return
Spec == Init /\ [][Next]_vars
=============================================================================
