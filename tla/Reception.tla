----------------------------- MODULE Reception ------------------------------
(***************************************************************************)
(* What a parser promises whoever gives it a message piece by piece: a     *)
(* verdict that is final until the next message.  The message is complete  *)
(* only if it is well formed and was given to its end, and what was        *)
(* received is then what it says; it is refused only if it is malformed,   *)
(* or if a piece of it ended at one of its brittle places.                 *)
(*                                                                         *)
(* What messages mean is a parameter.                                      *)
(***************************************************************************)
EXTENDS Naturals

CONSTANTS
    Messages,        \* what clients send
    WellFormed(_),   \* a message is, or begins with, a whole one
    SizeOf(_),       \* the length of that
    Contents(_),     \* what it says
    Brittle(_),      \* where no piece of it should end
    Nothing          \* not the contents of a message

VARIABLES
    message,   \* what the client is sending
    given,     \* how much of it the parser was given
    ends,      \* where the pieces of it ended
    verdict,   \* what the parser says of it
    received   \* and what it has made of it

vars == <<message, given, ends, verdict, received>>

Begin ==
    /\ message \in Messages
    /\ given = 0 /\ ends = {}
    /\ verdict = "pending" /\ received = Nothing

Init == Begin

\* Another piece, whatever the verdict on the ones before.
Give ==
    /\ verdict # "taken"
    /\ given' \in Nat /\ given' > given
    /\ ends' = ends \cup {given'}
    /\ UNCHANGED <<message, verdict, received>>

Complete ==
    /\ verdict = "pending"
    /\ WellFormed(message) /\ SizeOf(message) <= given
    /\ verdict' = "complete" /\ received' = Contents(message)
    /\ UNCHANGED <<message, given, ends>>

Refuse ==
    /\ verdict = "pending"
    /\ ~WellFormed(message) \/ ends \cap Brittle(message) # {}
    /\ verdict' = "refused"
    /\ UNCHANGED <<message, given, ends, received>>

\* The caller takes what was received; the message is done with.
Take ==
    /\ verdict = "complete" /\ verdict' = "taken" /\ received' = Nothing
    /\ given' = 0 /\ ends' = {}
    /\ UNCHANGED message

NextMessage == Begin'

Next == Give \/ Complete \/ Refuse \/ Take \/ NextMessage

Spec == Init /\ [][Next]_vars
=============================================================================
