------------------------------ MODULE Delivery ------------------------------
(***************************************************************************)
(* What a link promises about the copies it accepts, without channels,     *)
(* handlers, mutex or counters: a copy is with the link, or with one live  *)
(* subscription, or done.  A subscription may give a copy back; it ends    *)
(* only when it holds nothing.  The one concession: once a subscription    *)
(* has ended, the link may lose a copy that waits.                         *)
(***************************************************************************)
CONSTANTS Copies, SubIds, NoSub

VARIABLES at,    \* at[c]: where copy c is
          with,  \* with[c]: the subscription it was handed to, if at is "inflight"
          live,  \* subscriptions that can receive
          ended  \* subscriptions that were closed

deliveryVars == <<at, with, live, ended>>

DeliveryInit ==
  /\ at = [c \in Copies |-> "new"]
  /\ with = [c \in Copies |-> NoSub]
  /\ live = {}
  /\ ended = {}

Move(c, from, to, s) ==
  /\ at[c] = from
  /\ at' = [at EXCEPT ![c] = to]
  /\ with' = [with EXCEPT ![c] = s]
  /\ UNCHANGED <<live, ended>>

Accept(c) == Move(c, "new", "waiting", NoSub)
HandOut(c, s) == s \in live /\ Move(c, "waiting", "inflight", s)
GiveBack(c) == with[c] \in live /\ Move(c, "inflight", "waiting", NoSub)
Finish(c) == with[c] \in live /\ Move(c, "inflight", "acked", NoSub)
Lose(c) == ended # {} /\ Move(c, "waiting", "lost", NoSub)

Open(s) ==
  /\ s \notin live \cup ended
  /\ live' = live \cup {s}
  /\ UNCHANGED <<at, with, ended>>

End(s) ==
  /\ s \in live
  /\ \A c \in Copies : with[c] # s
  /\ live' = live \ {s}
  /\ ended' = ended \cup {s}
  /\ UNCHANGED <<at, with>>

DeliveryNext ==
  \/ \E c \in Copies : \/ Accept(c) \/ GiveBack(c) \/ Finish(c) \/ Lose(c)
                       \/ \E s \in SubIds : HandOut(c, s)
  \/ \E s \in SubIds : Open(s) \/ End(s)

DeliverySpec == DeliveryInit /\ [][DeliveryNext]_deliveryVars
=============================================================================
