------------------------------ MODULE Campaigns ------------------------------
(***************************************************************************)
(* Reviewed e-mail (src/features/admin/campaigns): a sweep or the composer *)
(* drafts one mail per person into a batch, operators edit, exclude,       *)
(* discard or approve, and an approved batch is sent draft by draft.       *)
(*                                                                         *)
(* Each call reads, decides and saves at separate awaits, so the calls     *)
(* of several operators and of the sweep interleave.  `save` writes only   *)
(* the paths the call changed since it read the document, and nothing      *)
(* checks that the document is still the one that was read.  All batches   *)
(* here are of one kind of mail.                                           *)
(***************************************************************************)
EXTENDS Integers, FiniteSets

CONSTANTS
    People,
    Nobody,       \* no person
    NBatches,     \* bound: batches ever created
    Calls,        \* bound: calls in flight at once
    Sources,      \* who drafts: a subset of BATCH_SOURCES
    AutoApprove,  \* the values settings.autoApprove may be read with
    MaxCalls,     \* bound: calls ever started
    MaxFaults     \* bound: crashes and calls of the database or mailer that throw

Batches == 1..NBatches
NoBatch == 0

ASSUME CampaignsAssumption ==
    /\ NBatches \in Nat /\ MaxCalls \in Nat /\ MaxFaults \in Nat
    /\ Nobody \notin People
    /\ Sources \subseteq {"sweep", "composer"}
    /\ AutoApprove \subseteq BOOLEAN
    /\ IsFiniteSet(Calls)

VARIABLES
    batches,    \* email_batches: status and source
    drafts,     \* email_drafts: the status of each person's draft in each batch
    approvals,  \* history: how often each batch was saved as approved
    delivered,  \* history: mails handed to the provider, by batch and person
    audience,   \* people who are subscribed and neither suspended nor banned
    recent,     \* people with a `sent` row in email_logs within minHoursBetween
    calls,      \* where each call is
    started, faults    \* what has been spent of each bound

vars == <<batches, drafts, approvals, delivered, audience, recent, calls, started, faults>>

BatchStatus == {"absent", "drafting", "pending_review", "approved", "sending",
                "sent", "discarded"}
DraftStatus == {"none", "draft", "edited", "excluded", "sent", "failed"}
Unsent == {"draft", "edited"}

(* `seen` is the status in the document the call read, `todo` the people   *)
(* its loop has still to visit, `outcome` what a draft is about to be      *)
(* saved as.  A call sends at the pcs in Sending.                          *)
Sending == {"send", "sending", "snapshot", "mail", "settle", "recover"}
Call == [pc : {"idle", "drafting", "edit", "exclude", "approve", "discard"} \cup Sending,
         batch : Batches \cup {NoBatch}, person : People \cup {Nobody},
         seen : BatchStatus \cup DraftStatus, todo : SUBSET People,
         auto : BOOLEAN, outcome : {"none", "sent", "failed"}]

Idle == [pc |-> "idle", batch |-> NoBatch, person |-> Nobody, seen |-> "none",
         todo |-> {}, auto |-> FALSE, outcome |-> "none"]

Init ==
    /\ batches = [b \in Batches |-> [status |-> "absent", source |-> "sweep"]]
    /\ drafts = [b \in Batches |-> [p \in People |-> "none"]]
    /\ approvals = [b \in Batches |-> 0]
    /\ delivered = [b \in Batches |-> [p \in People |-> 0]]
    /\ audience = People
    /\ recent = {}
    /\ calls = [c \in Calls |-> Idle]
    /\ started = 0 /\ faults = 0

(* A request arrives, or the sweep runs, and makes its first read. *)
Begins(c, call) ==
    /\ calls[c] = Idle
    /\ started < MaxCalls
    /\ started' = started + 1
    /\ calls' = [calls EXCEPT ![c] = call]

Ends(c) == calls' = [calls EXCEPT ![c] = Idle]
Goes(c, pc) == calls' = [calls EXCEPT ![c] = [@ EXCEPT !.pc = pc]]

mail == <<approvals, delivered>>
world == <<audience, recent>>
spent == <<started, faults>>

-------------------------------------------------------------------------------
(* Drafting: draftSweep and draftForUsers.                                 *)

(* The sweep drafts for the audience as it is now; the composer for people *)
(* an operator named.                                                      *)
BeginDrafting(c, b) ==
    /\ batches[b].status = "absent"
    /\ \A a \in 1..(b - 1) : batches[a].status # "absent"
    /\ \E source \in Sources, auto \in AutoApprove, named \in SUBSET People \ {{}} :
         /\ batches' = [batches EXCEPT ![b] = [status |-> "drafting", source |-> source]]
         /\ Begins(c, [Idle EXCEPT !.pc = "drafting", !.batch = b,
                                   !.todo = IF source = "sweep" THEN audience ELSE named,
                                   !.auto = source = "sweep" /\ auto])
    /\ UNCHANGED <<drafts, mail, world, faults>>

(* The frequency cap, which the composer reports but does not enforce. *)
Eligible(b, p) == batches[b].source = "sweep" => p \notin recent

(* Other rules, the builder or a throw may pass over anybody. *)
DraftOne(c, p) ==
    /\ calls[c].pc = "drafting"
    /\ p \in calls[c].todo
    /\ calls' = [calls EXCEPT ![c] = [@ EXCEPT !.todo = calls[c].todo \ {p}]]
    /\ LET b == calls[c].batch
       IN \/ Eligible(b, p) /\ drafts' = [drafts EXCEPT ![b][p] = "draft"]
          \/ UNCHANGED drafts
    /\ UNCHANGED <<batches, mail, world, spent>>

(* A sweep that still sends what it has drafted. *)
SendsUnreviewed(c) ==
    /\ calls[c].pc = "drafting"
    /\ calls[c].todo = {}
    /\ batches' = [batches EXCEPT ![calls[c].batch].status = "pending_review"]
    /\ Goes(c, "send")
    /\ UNCHANGED <<drafts, mail, world, spent>>

(* The batch document was created by this call, so its status is a change  *)
(* and is written whatever has been saved since.                           *)
FinishDrafting(c) ==
    /\ calls[c].pc = "drafting"
    /\ calls[c].todo = {}
    /\ LET b == calls[c].batch
       IN IF calls[c].auto
            THEN /\ batches' = [batches EXCEPT ![b].status = "approved"]
                 /\ approvals' = [approvals EXCEPT ![b] = @ + 1]
                 /\ Goes(c, "send")
            ELSE /\ batches' = [batches EXCEPT ![b].status = "pending_review"]
                 /\ UNCHANGED approvals
                 /\ Ends(c)
    /\ UNCHANGED <<drafts, delivered, world, spent>>

-------------------------------------------------------------------------------
(* Review: one draft, and the whole batch.                                 *)

BeginDraftChange(c, b, p, change) ==
    /\ drafts[b][p] \notin {"none", "sent"}
    /\ Begins(c, [Idle EXCEPT !.pc = change, !.batch = b, !.person = p,
                              !.seen = drafts[b][p]])
    /\ UNCHANGED <<batches, drafts, mail, world, faults>>

(* A status equal to the one that was read is not written. *)
SaveDraft(c, status) ==
    drafts' = IF calls[c].seen = status THEN drafts
              ELSE [drafts EXCEPT ![calls[c].batch][calls[c].person] = status]

EditDraft(c) ==
    /\ calls[c].pc = "edit"
    /\ SaveDraft(c, "edited")
    /\ Ends(c)
    /\ UNCHANGED <<batches, mail, world, spent>>

ExcludeDraft(c) ==
    /\ calls[c].pc = "exclude"
    /\ SaveDraft(c, "excluded")
    /\ Ends(c)
    /\ UNCHANGED <<batches, mail, world, spent>>

BeginApprove(c, b) ==
    /\ batches[b].status = "pending_review"
    /\ Begins(c, [Idle EXCEPT !.pc = "approve", !.batch = b])
    /\ UNCHANGED <<batches, drafts, mail, world, faults>>

Approve(c) ==
    /\ calls[c].pc = "approve"
    /\ LET b == calls[c].batch
       IN /\ batches' = [batches EXCEPT ![b].status = "approved"]
          /\ approvals' = [approvals EXCEPT ![b] = @ + 1]
    /\ Goes(c, "send")
    /\ UNCHANGED <<drafts, delivered, world, spent>>

(* A batch being drafted, or approved and not yet sending, is not refused. *)
BeginDiscard(c, b) ==
    /\ batches[b].status \notin {"absent", "sent", "sending"}
    /\ Begins(c, [Idle EXCEPT !.pc = "discard", !.batch = b, !.seen = batches[b].status])
    /\ UNCHANGED <<batches, drafts, mail, world, faults>>

Discard(c) ==
    /\ calls[c].pc = "discard"
    /\ batches' = IF calls[c].seen = "discarded" THEN batches
                  ELSE [batches EXCEPT ![calls[c].batch].status = "discarded"]
    /\ Ends(c)
    /\ UNCHANGED <<drafts, mail, world, spent>>

-------------------------------------------------------------------------------
(* Sending.                                                                *)

SendReads(c) ==
    /\ calls[c].pc = "send"
    /\ calls' = [calls EXCEPT ![c] = [@ EXCEPT !.pc = "sending",
                                              !.seen = batches[calls[c].batch].status]]
    /\ UNCHANGED <<batches, drafts, mail, world, spent>>

SendSaves(c) ==
    /\ calls[c].pc = "sending"
    /\ batches' = IF calls[c].seen = "sending" THEN batches
                  ELSE [batches EXCEPT ![calls[c].batch].status = "sending"]
    /\ Goes(c, "snapshot")
    /\ UNCHANGED <<drafts, mail, world, spent>>

(* The drafts to send are read once, before the first of them is sent. *)
SendSnapshots(c) ==
    /\ calls[c].pc = "snapshot"
    /\ LET unsent == {p \in People : drafts[calls[c].batch][p] \in Unsent}
       IN calls' = [calls EXCEPT ![c] = [@ EXCEPT !.pc = "mail", !.todo = unsent]]
    /\ UNCHANGED <<batches, drafts, mail, world, spent>>

SettlesAs(c, p, pc, outcome) ==
    calls' = [calls EXCEPT ![c] = [@ EXCEPT !.pc = pc, !.person = p, !.outcome = outcome,
                                            !.todo = calls[c].todo \ {p}]]

Leaves(b, p) == delivered' = [delivered EXCEPT ![b][p] = @ + 1]

(* Refusals saved as sent. *)
MailRefusedAsSent(c, p) ==
    /\ calls[c].pc = "mail"
    /\ p \in calls[c].todo
    /\ SettlesAs(c, p, "settle", "sent")
    /\ UNCHANGED <<batches, drafts, mail, world, spent>>

(* A refusal by the provider, or by the switch of the kind. *)
MailRefused(c, p) ==
    /\ calls[c].pc = "mail"
    /\ p \in calls[c].todo
    /\ SettlesAs(c, p, "settle", "failed")
    /\ UNCHANGED <<batches, drafts, mail, world, spent>>

(* A loop that comes back to the same person. *)
MailSentAgain(c, p) ==
    /\ calls[c].pc = "mail"
    /\ p \in calls[c].todo
    /\ Leaves(calls[c].batch, p)
    /\ recent' = recent \cup {p}
    /\ calls' = [calls EXCEPT ![c] = [@ EXCEPT !.pc = "settle", !.person = p, !.outcome = "sent"]]
    /\ UNCHANGED <<batches, drafts, approvals, audience, spent>>

MailSent(c, p) ==
    /\ calls[c].pc = "mail"
    /\ p \in calls[c].todo
    /\ Leaves(calls[c].batch, p)
    /\ recent' = recent \cup {p}
    /\ SettlesAs(c, p, "settle", "sent")
    /\ UNCHANGED <<batches, drafts, approvals, audience, spent>>

(* emailService.send throws before the mail has left, or after it has and  *)
(* before email_logs has a row.                                            *)
MailThrows(c, p) ==
    /\ calls[c].pc = "mail"
    /\ p \in calls[c].todo
    /\ faults < MaxFaults
    /\ faults' = faults + 1
    /\ Leaves(calls[c].batch, p) \/ UNCHANGED delivered
    /\ SettlesAs(c, p, "recover", "failed")
    /\ UNCHANGED <<batches, drafts, approvals, world, started>>

(* The draft was read as unsent, so its new status is always written. *)
Settle(c) ==
    /\ calls[c].pc \in {"settle", "recover"}
    /\ drafts' = [drafts EXCEPT ![calls[c].batch][calls[c].person] = calls[c].outcome]
    /\ calls' = [calls EXCEPT ![c] = [@ EXCEPT !.pc = "mail", !.person = Nobody,
                                              !.outcome = "none"]]
    /\ UNCHANGED <<batches, mail, world, spent>>

(* A send that never saves the batch as sent. *)
FinishSendForgets(c) ==
    /\ calls[c].pc = "mail"
    /\ calls[c].todo = {}
    /\ Ends(c)
    /\ UNCHANGED <<batches, drafts, mail, world, spent>>

FinishSend(c) ==
    /\ calls[c].pc = "mail"
    /\ calls[c].todo = {}
    /\ batches' = [batches EXCEPT ![calls[c].batch].status = "sent"]
    /\ Ends(c)
    /\ UNCHANGED <<drafts, mail, world, spent>>

-------------------------------------------------------------------------------
(* What goes wrong, and what happens outside.                              *)

(* A save throws.  The catch of the loop saves the draft as failed; any    *)
(* other throw ends the call and leaves the documents as they are.         *)
SaveThrows(c) ==
    /\ calls[c].pc \notin {"idle", "mail"} \/ (calls[c].pc = "mail" /\ calls[c].todo = {})
    /\ calls[c].pc = "drafting" => calls[c].todo = {}
    /\ faults < MaxFaults
    /\ faults' = faults + 1
    /\ IF calls[c].pc = "settle"
         THEN calls' = [calls EXCEPT ![c] = [@ EXCEPT !.pc = "recover", !.outcome = "failed"]]
         ELSE Ends(c)
    /\ UNCHANGED <<batches, drafts, mail, world, started>>

Crash ==
    /\ faults < MaxFaults
    /\ faults' = faults + 1
    /\ calls' = [c \in Calls |-> Idle]
    /\ UNCHANGED <<batches, drafts, mail, world, started>>

(* Unsubscribed, suspended, banned, or deleted. *)
LeavesAudience(p) ==
    /\ p \in audience
    /\ audience' = audience \ {p}
    /\ UNCHANGED <<batches, drafts, mail, recent, calls, spent>>

CapExpires(p) ==
    /\ p \in recent
    /\ recent' = recent \ {p}
    /\ UNCHANGED <<batches, drafts, mail, audience, calls, spent>>

Requested(c) ==
    \E b \in Batches :
      \/ BeginDrafting(c, b)
      \/ BeginApprove(c, b)
      \/ BeginDiscard(c, b)
      \/ \E p \in People, change \in {"edit", "exclude"} : BeginDraftChange(c, b, p, change)

MailOne(c) ==
    \E p \in People : MailRefused(c, p) \/ MailSent(c, p) \/ MailThrows(c, p)

Proceeds(c) ==
    \/ \E p \in People : DraftOne(c, p)
    \/ FinishDrafting(c) \/ EditDraft(c) \/ ExcludeDraft(c)
    \/ Approve(c) \/ Discard(c)
    \/ SendReads(c) \/ SendSaves(c) \/ SendSnapshots(c)
    \/ MailOne(c) \/ Settle(c) \/ FinishSend(c)

Next ==
    \/ \E c \in Calls : Requested(c) \/ Proceeds(c) \/ SaveThrows(c)
    \/ Crash
    \/ \E p \in People : LeavesAudience(p) \/ CapExpires(p)

Spec == Init /\ [][Next]_vars

(* A promise the database or the mailer answers is continued by the event  *)
(* loop.  People and operators owe nothing.                                *)
FairSpec == Spec /\ \A c \in Calls : WF_vars(Proceeds(c))

-------------------------------------------------------------------------------
TypeOK ==
    /\ batches \in [Batches -> [status : BatchStatus, source : {"sweep", "composer"}]]
    /\ drafts \in [Batches -> [People -> DraftStatus]]
    /\ approvals \in [Batches -> Nat]
    /\ delivered \in [Batches -> [People -> Nat]]
    /\ audience \subseteq People
    /\ recent \subseteq People
    /\ calls \in [Calls -> Call]
    /\ started \in 0..MaxCalls
    /\ faults \in 0..MaxFaults

Drafting(b) == \E c \in Calls : calls[c].pc = "drafting" /\ calls[c].batch = b

(* "Only approval sends" (email-batch.model.ts): a mail has left a batch   *)
(* only if the batch was approved, and only once its drafting was over.    *)
OnlyApprovalSends ==
    \A b \in Batches, p \in People :
        delivered[b][p] > 0 => approvals[b] > 0 /\ ~Drafting(b)

(* Whatever throws or crashes, and however calls interleave, one approval  *)
(* mails one person at most once: the loop in `send` never goes back.      *)
OncePerApproval ==
    \A b \in Batches, p \in People : delivered[b][p] <= approvals[b]

(* A draft the console shows as sent did leave: neither the catch in       *)
(* `send` nor a refusal by the provider ends in that status.               *)
SentWasDelivered ==
    \A b \in Batches, p \in People : drafts[b][p] = "sent" => delivered[b][p] > 0

(* Unless something throws or crashes, every approved batch is settled,    *)
(* whatever operators do to it meanwhile.                                  *)
ApprovedIsSettled ==
    [](faults = 0) =>
        \A b \in Batches :
            batches[b].status \in {"approved", "sending"}
                ~> batches[b].status \in {"sent", "discarded"}

(* "Sends every unsent draft in an approved batch" (campaigns.service.ts): *)
(* a draft already marked sent is not mailed again.                        *)
SentNotMailedAgain ==
    [][\A b \in Batches, p \in People :
         drafts[b][p] = "sent" => delivered'[b][p] = delivered[b][p]]_vars
===============================================================================
