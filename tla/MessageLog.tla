----------------------------- MODULE MessageLog -----------------------------
(***************************************************************************)
(* What the write side of a message store promises, with no connections,   *)
(* locks or snapshots in it: one log that only grows, in which a message   *)
(* has the position that the messages of its stream before it give it, and *)
(* confirmations that are never false.                                     *)
(*                                                                         *)
(* The version of a stream is counted here, whereas the code looks for the *)
(* largest position.                                                       *)
(***************************************************************************)
EXTENDS Integers, FiniteSets

CONSTANT NoVersion      \* the writer states no expected version

VARIABLES log,          \* log[g]: the message with global position g
          acked         \* the writes that were confirmed

Init ==
    /\ log = <<>>
    /\ acked = {}

(* The number of messages of a stream among the first n of a log. *)
StreamLength(messages, n, stream) ==
    Cardinality({g \in 1 .. n : messages[g].stream_name = stream})

(* Message g continues the log of the g - 1 messages before it. *)
Continues(messages, g) ==
    /\ \A h \in 1 .. g - 1 : messages[h].id # messages[g].id
    /\ messages[g].position
           = StreamLength(messages, g - 1, messages[g].stream_name)

(* Messages are appended, several at once when a transaction wrote them. *)
Grows ==
    /\ \E n \in {Cardinality(DOMAIN log')} : DOMAIN log' = 1 .. n
    /\ \A g \in DOMAIN log : g \in DOMAIN log' /\ log'[g] = log[g]
    /\ \A g \in DOMAIN log' \ DOMAIN log : Continues(log', g)

(* A confirmed write is in the log, right after the version it expected. *)
Truthful(messages, confirmation) ==
    /\ \E g \in DOMAIN messages :
           /\ messages[g].id = confirmation.id
           /\ messages[g].stream_name = confirmation.stream_name
           /\ messages[g].position = confirmation.position
    /\ confirmation.expected_version # NoVersion
           => confirmation.position = confirmation.expected_version + 1

Confirms ==
    /\ acked \subseteq acked'
    /\ \A confirmation \in acked' \ acked : Truthful(log', confirmation)

Next == Grows /\ Confirms

Spec == Init /\ [][Next]_<<log, acked>>
=============================================================================
