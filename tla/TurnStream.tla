----------------------------- MODULE TurnStream -----------------------------
(***************************************************************************)
(* The stream that follows one turn of an Ask conversation                 *)
(* (features/ask/ask.sse.ts).  It pushes what a first read found, then     *)
(* reads the turn again at every beat of an interval, whether or not the   *)
(* read before has been answered, and ends when a push tells the end, when *)
(* a read fails, when the client leaves or when its time is over.          *)
(*                                                                         *)
(* Time is counted in beats.  The turn is seen from here: it is settled,   *)
(* as often as its job is made again (Ask).                                *)
(***************************************************************************)
EXTENDS Naturals, FiniteSets

CONSTANTS
    MaxRead,      \* how many beats the database may take over a read
    Lifetime,     \* MAX_STREAM_MS
    MaxTime,      \* bound: beats looked at
    MaxSettles    \* bound: how often the turn is settled

TurnStreamAssumption ==
    MaxRead \in Nat \ {0} /\ Lifetime \in Nat \ {0} /\ MaxTime \in Nat /\ MaxSettles \in Nat

\* A read is answered before it is MaxRead beats old.
Polls == 0..MaxRead

VARIABLES
    beat,
    turn,         \* the turn's status, and whether it has a text
    stream,       \* how far the stream is
    polls,        \* the reads under way, and the turn each has found
    pushed,       \* lastStatus and sentTranscript
    settles,
    settledAt,    \* history: since when the turn has been settled
    openedAt,     \* history: since when the stream has been open
    wroteAfter    \* history: whether something was written after the end

vars == <<beat, turn, stream, polls, pushed, settles, settledAt, openedAt, wroteAfter>>

Settled == {"done", "failed"}
Turn == [status : {"pending"} \cup Settled, text : BOOLEAN]
NoPoll == [pc |-> "none", since |-> 0, found |-> [status |-> "pending", text |-> FALSE]]

TypeOK ==
    /\ beat \in 0..MaxTime /\ turn \in Turn /\ settles \in 0..MaxSettles
    /\ stream \in {"none", "first", "open", "ended", "torn"}
    /\ polls \in [Polls -> [pc : {"none", "asked", "found"}, since : 0..MaxTime, found : Turn]]
    /\ pushed \in [status : {"", "pending"} \cup Settled, transcript : BOOLEAN]
    /\ settledAt \in 0..MaxTime /\ openedAt \in 0..MaxTime /\ wroteAfter \in BOOLEAN

\* A turn that was tapped is settled when it is created.
Init ==
    /\ beat = 0 /\ turn \in {t \in Turn : t.status # "failed"}
    /\ stream = "none" /\ polls = [q \in Polls |-> NoPoll]
    /\ pushed = [status |-> "", transcript |-> FALSE]
    /\ settles = 0 /\ settledAt = 0 /\ openedAt = 0 /\ wroteAfter = FALSE

----------------------------------------------------------------------------
(* The turn: settleTurn(), by the attempts of its job. *)

Settle(status) ==
    /\ settles < MaxSettles /\ settles' = settles + 1
    /\ turn' = [status |-> status, text |-> turn.text \/ status = "done"]
    /\ settledAt' = IF turn.status = "pending" THEN beat ELSE settledAt
    /\ UNCHANGED <<beat, stream, polls, pushed, openedAt, wroteAfter>>

----------------------------------------------------------------------------
(* streamTurn(). *)

EndsWhenDone(t) == t.status = "done"     \* a turn that failed may be settled again
Ends(t) == t.status \in Settled

\* push(): the transcript once, then a status that was not the last.
Writes(t) == (t.text /\ ~pushed.transcript) \/ t.status # pushed.status
Told(t) == pushed' = [status |-> t.status, transcript |-> pushed.transcript \/ t.text]

FirstRead ==
    /\ stream = "none" /\ stream' = "first"
    /\ polls' = [polls EXCEPT ![0] = [pc |-> "found", since |-> beat, found |-> turn]]
    /\ UNCHANGED <<beat, turn, pushed, settles, settledAt, openedAt, wroteAfter>>

\* finish() clears the timers.  The first push comes before they are set, and before their
\* names are: finish() throws then, and the error handler tears the connection down.
FirstPush ==
    /\ stream = "first" /\ Told(polls[0].found)
    /\ stream' = IF Ends(polls[0].found) THEN "torn" ELSE "open"
    /\ polls' = [polls EXCEPT ![0] = NoPoll] /\ openedAt' = beat
    /\ UNCHANGED <<beat, turn, settles, settledAt, wroteAfter>>

FindTurn(q) ==
    /\ polls[q].pc = "asked"
    /\ polls' = [polls EXCEPT ![q].pc = "found", ![q].found = turn]
    /\ UNCHANGED <<beat, turn, stream, pushed, settles, settledAt, openedAt, wroteAfter>>

\* Nothing asks whether the stream has ended since the read was sent.
Push(q) ==
    /\ stream \in {"open", "ended"} /\ polls[q].pc = "found"
    /\ polls' = [polls EXCEPT ![q] = NoPoll] /\ Told(polls[q].found)
    /\ stream' = IF Ends(polls[q].found) /\ polls[q].found.status # pushed.status THEN "ended"
                 ELSE stream
    /\ wroteAfter' = (wroteAfter \/ (stream = "ended" /\ Writes(polls[q].found)))
    /\ UNCHANGED <<beat, turn, settles, settledAt, openedAt>>

PollFails(q) ==
    /\ stream \in {"open", "ended"} /\ polls[q].pc = "asked"
    /\ polls' = [polls EXCEPT ![q] = NoPoll] /\ stream' = "ended"
    /\ UNCHANGED <<beat, turn, pushed, settles, settledAt, openedAt, wroteAfter>>

ClientLeaves ==
    /\ stream = "open" /\ stream' = "ended"
    /\ UNCHANGED <<beat, turn, polls, pushed, settles, settledAt, openedAt, wroteAfter>>

----------------------------------------------------------------------------
(* The clock: every beat of an open stream sends a read. *)

OnTime == \A q \in Polls : polls[q].pc = "none" \/ beat < polls[q].since + MaxRead

Beat ==
    /\ beat < MaxTime /\ beat' = beat + 1 /\ OnTime
    /\ stream' = IF stream = "open" /\ beat' >= openedAt + Lifetime THEN "ended" ELSE stream
    /\ polls' = IF stream' = "open"
                THEN LET free == CHOOSE q \in Polls : polls[q].pc = "none"
                     IN [polls EXCEPT ![free] = [NoPoll EXCEPT !.pc = "asked", !.since = beat']]
                ELSE polls
    /\ UNCHANGED <<turn, pushed, settles, settledAt, openedAt, wroteAfter>>

Next ==
    \/ \E status \in Settled : Settle(status)
    \/ FirstRead \/ FirstPush \/ ClientLeaves \/ Beat
    \/ \E q \in Polls : FindTurn(q) \/ Push(q) \/ PollFails(q)

Spec == Init /\ [][Next]_vars

----------------------------------------------------------------------------
(* Properties. *)

\* However slowly its reads are answered and in whatever order, no stream stays open on a
\* settled turn for longer than the beat to its next read and that read.
NobodyWaitsInVain ==
    (stream = "open" /\ turn.status \in Settled) =>
        \/ beat <= settledAt + 1 + MaxRead
        \/ beat <= openedAt + 1 + MaxRead

\* ask.sse.ts:101 returns after a first push that ended the stream.  It is never reached: the
\* timers that finish() clears do not exist yet, and the connection is torn instead of ended.
EndsInOrder == stream # "torn"

\* finish() ends the response, and nothing is written to it from then on.  A read that was sent
\* before and is answered after it is pushed all the same.
EndIsTheLastWord == ~wroteAfter
=============================================================================
