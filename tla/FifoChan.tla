------------------------------ MODULE FifoChan ------------------------------
(***************************************************************************)
(* What a local channel promises, whatever its locks and queues: it pairs  *)
(* accepted messages with receive calls, first come first served on both   *)
(* sides (Chan/README.md, `Chan idea' and `ChanAsync': "Each task          *)
(* resulting from .Send completes upon delivery through .Receive, each     *)
(* task resulting from .Receive completes upon matching .Send").  One      *)
(* step decides the fate of one call.                                      *)
(***************************************************************************)
EXTENDS Sequences

CONSTANTS Messages, Requests

VARIABLES
  offers,     \* accepted messages without a receive call, oldest first
  requests,   \* receive calls without a message, oldest first
  paired,     \* <<message, receive call>>: decided, and decided for good
  refused,    \* messages that were not accepted
  cancelled   \* receive calls that get no message

vars == <<offers, requests, paired, refused, cancelled>>

Init ==
  /\ offers = <<>>
  /\ requests = <<>>
  /\ paired = {}
  /\ refused = {}
  /\ cancelled = {}

InSeq(x, seq) == \E i \in DOMAIN seq : seq[i] = x

FreshMessage(m) ==
  /\ ~InSeq(m, offers)
  /\ m \notin refused
  /\ \A p \in paired : p[1] # m

FreshRequest(c) ==
  /\ ~InSeq(c, requests)
  /\ c \notin cancelled
  /\ \A p \in paired : p[2] # c

(* A message is refused, goes to the oldest request, or waits. *)
Offer(m) ==
  /\ FreshMessage(m)
  /\ \/ /\ refused' = refused \cup {m}
        /\ UNCHANGED <<offers, requests, paired>>
     \/ /\ requests # <<>>
        /\ paired' = paired \cup {<<m, Head(requests)>>}
        /\ requests' = Tail(requests)
        /\ UNCHANGED <<offers, refused>>
     \/ /\ requests = <<>>
        /\ offers' = Append(offers, m)
        /\ UNCHANGED <<requests, paired, refused>>
  /\ UNCHANGED cancelled

(* A receive call gets the oldest offer; without an offer it waits or is   *)
(* cancelled.                                                              *)
Request(c) ==
  /\ FreshRequest(c)
  /\ \/ /\ offers # <<>>
        /\ paired' = paired \cup {<<Head(offers), c>>}
        /\ offers' = Tail(offers)
        /\ UNCHANGED <<requests, cancelled>>
     \/ /\ offers = <<>>
        /\ requests' = Append(requests, c)
        /\ UNCHANGED <<offers, paired, cancelled>>
     \/ /\ offers = <<>>
        /\ cancelled' = cancelled \cup {c}
        /\ UNCHANGED <<offers, requests, paired>>
  /\ UNCHANGED refused

(* Closing cancels requests, the oldest first. *)
Cancel ==
  /\ requests # <<>>
  /\ cancelled' = cancelled \cup {Head(requests)}
  /\ requests' = Tail(requests)
  /\ UNCHANGED <<offers, paired, refused>>

Next ==
  \/ \E m \in Messages : Offer(m)
  \/ \E c \in Requests : Request(c)
  \/ Cancel

Spec == Init /\ [][Next]_vars
=============================================================================
