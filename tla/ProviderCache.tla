---------------------------- MODULE ProviderCache ----------------------------
(***************************************************************************)
(* Which provider carries the mail (lib/mail/mailer): the operator's       *)
(* choice in its one row, and the memory each process keeps of it.  What   *)
(* was read is trusted for a time that runs from the question and not from *)
(* the answer.  A choice writes the row and, in the next step, forgets the *)
(* memory of the process that took it, and of no other.                    *)
(*                                                                         *)
(* Time is counted in ticks, as in FlagsCache.                             *)
(***************************************************************************)
EXTENDS Naturals, FiniteSets

CONSTANTS
    Processes,   \* the processes that send mail
    Sends,       \* bound: mails at once that look for their provider
    TTL,         \* PROVIDER_CACHE_MS: how long a choice is trusted
    MaxTime,     \* bound: ticks looked at
    MaxChoices   \* bound: choices

ProviderAssumption ==
    /\ IsFiniteSet(Processes) /\ Processes # {} /\ IsFiniteSet(Sends)
    /\ TTL \in Nat \ {0} /\ MaxTime \in Nat /\ MaxChoices \in Nat

VARIABLES
    clock,
    chosen,      \* mail_provider_settings, "absent" before the first choice
    known,       \* what each process remembers, and when it asked: cached
    looks,       \* the reads under way
    forgetting,  \* choices that are written and not forgotten yet, by process
    chosenAt,    \* history: when the row was last written
    choices

vars == <<clock, chosen, known, looks, forgetting, chosenAt, choices>>

Providers == {"resend", "cloudflare"}
Forgotten == [provider |-> "none", readAt |-> 0]
NoLook == [pc |-> "none", by |-> CHOOSE p \in Processes : TRUE, provider |-> "none", readAt |-> 0]

TypeOK ==
    /\ clock \in 0..MaxTime /\ chosenAt \in 0..MaxTime /\ choices \in 0..MaxChoices
    /\ chosen \in Providers \cup {"absent"}
    /\ known \in [Processes -> [provider : Providers \cup {"none"}, readAt : 0..MaxTime]]
    /\ looks \in [Sends -> [pc : {"none", "asked", "answered"}, by : Processes,
                            provider : Providers \cup {"none"}, readAt : 0..MaxTime]]
    /\ forgetting \in [Processes -> 0..MaxChoices]

Init ==
    /\ clock = 0 /\ chosen = "absent" /\ known = [p \in Processes |-> Forgotten]
    /\ looks = [s \in Sends |-> NoLook] /\ forgetting = [p \in Processes |-> 0]
    /\ chosenAt = 0 /\ choices = 0

\* env.MAIL_PROVIDER stands in for a choice nobody has made.
Seed == "resend"
Active == IF chosen = "absent" THEN Seed ELSE chosen

Trusted(p) == known[p] # Forgotten /\ clock - known[p].readAt < TTL

----------------------------------------------------------------------------
(* activeProvider(), of a process that does not trust what it knows. *)

AskProvider(s, p) ==
    /\ ~Trusted(p) /\ looks[s] = NoLook
    /\ looks' = [looks EXCEPT ![s] = [pc |-> "asked", by |-> p, provider |-> "none",
                                      readAt |-> clock]]
    /\ UNCHANGED <<clock, chosen, known, forgetting, chosenAt, choices>>

FindProvider(s) ==
    /\ looks[s].pc = "asked"
    /\ looks' = [looks EXCEPT ![s].pc = "answered", ![s].provider = Active]
    /\ UNCHANGED <<clock, chosen, known, forgetting, chosenAt, choices>>

Keeps(s, readAt) ==
    /\ looks[s].pc = "answered" /\ looks' = [looks EXCEPT ![s] = NoLook]
    /\ known' = [known EXCEPT ![looks[s].by] =
                   [provider |-> looks[s].provider, readAt |-> readAt]]
    /\ UNCHANGED <<clock, chosen, forgetting, chosenAt, choices>>

KeepFromTheAnswer(s) == Keeps(s, clock)     \* the time is taken when the row is there
KeepProvider(s) == Keeps(s, looks[s].readAt)

\* The mail leaves through the seed, which is not kept.
LookFails(s) ==
    /\ looks[s].pc = "asked" /\ looks' = [looks EXCEPT ![s] = NoLook]
    /\ UNCHANGED <<clock, chosen, known, forgetting, chosenAt, choices>>

----------------------------------------------------------------------------
(* setProvider(), the clock and the processes. *)

SetProvider(p, provider) ==
    /\ choices < MaxChoices /\ choices' = choices + 1
    /\ chosen' = provider /\ chosenAt' = clock
    /\ forgetting' = [forgetting EXCEPT ![p] = @ + 1]
    /\ UNCHANGED <<clock, known, looks>>

Forget(p) ==
    /\ forgetting[p] > 0 /\ forgetting' = [forgetting EXCEPT ![p] = @ - 1]
    /\ known' = [known EXCEPT ![p] = Forgotten]
    /\ UNCHANGED <<clock, chosen, looks, chosenAt, choices>>

\* A read may take as long as it likes.
Tick ==
    /\ clock < MaxTime /\ clock' = clock + 1
    /\ UNCHANGED <<chosen, known, looks, forgetting, chosenAt, choices>>

Restart(p) ==
    /\ known' = [known EXCEPT ![p] = Forgotten]
    /\ looks' = [s \in Sends |-> IF looks[s].by = p THEN NoLook ELSE looks[s]]
    /\ forgetting' = [forgetting EXCEPT ![p] = 0]
    /\ UNCHANGED <<clock, chosen, chosenAt, choices>>

Next ==
    \/ \E s \in Sends : (\E p \in Processes : AskProvider(s, p))
                        \/ FindProvider(s) \/ KeepProvider(s) \/ LookFails(s)
    \/ \E p \in Processes : \/ \E provider \in Providers : SetProvider(p, provider)
                            \/ Forget(p) \/ Restart(p)
    \/ Tick

Spec == Init /\ [][Next]_vars

----------------------------------------------------------------------------
(* Properties. *)

\* mailer.ts:211 - "a switch takes up to this long to take effect everywhere": one time to live
\* after a choice no process trusts another one, not even one whose read was asked before the
\* choice, however late that read was answered.
ChoiceCatchesUp ==
    \A p \in Processes : (Trusted(p) /\ clock >= chosenAt + TTL) => known[p].provider = Active

\* admin-emails.service.ts:347 - clearing the memory "is what makes the switch take effect
\* immediately rather than eventually".  A read under way in the process that took the choice
\* brings the old provider back, and so does any other process.
SwitchIsImmediate ==
    \A p \in Processes : (Trusted(p) /\ forgetting[p] = 0) => known[p].provider = Active
=============================================================================
