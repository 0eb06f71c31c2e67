---------------------------- MODULE DurableQueue ----------------------------
(***************************************************************************)
(* What the link agents with the database promise about the documents they *)
(* store, without calls, handlers, subscriptions that expire or statistics *)
(* of waiting values: a document that was stored stays in the queue until  *)
(* a client to which its value was returned acknowledges it, and is then   *)
(* counted once; a restart forgets what is on its way and the counter.     *)
(* The concessions: a document can be assigned and given back any number   *)
(* of times, and so reach several clients; it can stay assigned for ever.  *)
(***************************************************************************)
EXTENDS Naturals

CONSTANTS Links,
          Documents,     \* each with its link and value
          Clients,       \* each with its link
          Subscriptions,
          NoSub, NoDocument

VARIABLES place,       \* place[c]: where document c is
          holder,      \* holder[c]: the subscription it is assigned to
          taken,       \* taken[k]: the document on its way to client k
          handed,      \* handed[k]: the values that were returned to k
          acknowledged \* acknowledged[l]: acknowledgements counted by link l

durableVars == <<place, holder, taken, handed, acknowledged>>

DurableInit ==
  /\ place = [c \in Documents |-> "new"]
  /\ holder = [c \in Documents |-> NoSub]
  /\ taken = [k \in Clients |-> NoDocument]
  /\ handed = [k \in Clients |-> {}]
  /\ acknowledged = [l \in Links |-> 0]

Moved(c, from, to) ==
  /\ place[c] = from
  /\ place' = [place EXCEPT ![c] = to]

Store(c) == Moved(c, "new", "queued") /\ UNCHANGED <<holder, taken, handed, acknowledged>>
Refuse(c) == Moved(c, "new", "gone") /\ UNCHANGED <<holder, taken, handed, acknowledged>>

Free(l) == {c \in Documents : place[c] = "queued" /\ holder[c] = NoSub /\ c.link = l}

\* All free documents of a link are assigned, one of them is on its way to k.
Take(k, c, s) ==
  /\ taken[k] = NoDocument /\ c \in Free(c.link)
  /\ holder' = [d \in Documents |-> IF d \in Free(c.link) THEN s ELSE holder[d]]
  /\ taken' = [taken EXCEPT ![k] = c]
  /\ UNCHANGED <<place, handed, acknowledged>>

GiveBack(s) ==
  /\ holder' = [c \in Documents |-> IF holder[c] = s THEN NoSub ELSE holder[c]]
  /\ UNCHANGED <<place, taken, handed, acknowledged>>

Hand(k) ==
  /\ taken[k] # NoDocument
  /\ handed' = [handed EXCEPT ![k] = @ \cup {taken[k].value}]
  /\ taken' = [taken EXCEPT ![k] = NoDocument]
  /\ UNCHANGED <<place, holder, acknowledged>>

Acknowledge(k, c) ==
  /\ c.value \in handed[k]
  /\ Moved(c, "queued", "gone")
  /\ holder' = [holder EXCEPT ![c] = NoSub]
  /\ acknowledged' = [acknowledged EXCEPT ![k.link] = @ + 1]
  /\ UNCHANGED <<taken, handed>>

\* What was not stored yet may be lost, nothing else.
Restart(l) ==
  /\ \E lost \in SUBSET {c \in Documents : place[c] = "new" /\ c.link = l} :
       place' = [c \in Documents |-> IF c \in lost THEN "gone" ELSE place[c]]
  /\ taken' = [k \in Clients |-> IF k.link = l THEN NoDocument ELSE taken[k]]
  /\ acknowledged' = [acknowledged EXCEPT ![l] = 0]
  /\ UNCHANGED <<holder, handed>>

DurableNext ==
  \/ \E c \in Documents : Store(c) \/ Refuse(c)
  \/ \E k \in Clients :
       \/ Hand(k)
       \/ \E c \in Documents : \/ Acknowledge(k, c)
                               \/ \E s \in Subscriptions : Take(k, c, s)
  \/ \E s \in Subscriptions : GiveBack(s)
  \/ \E l \in Links : Restart(l)

DurableSpec == DurableInit /\ [][DurableNext]_durableVars
=============================================================================
