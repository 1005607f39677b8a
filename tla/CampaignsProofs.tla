--------------------------- MODULE CampaignsProofs ---------------------------
(***************************************************************************)
(* Theorems about Campaigns, for any people, batches, calls and faults.    *)
(***************************************************************************)
EXTENDS Campaigns, FiniteSetTheorems, TLAPS

-------------------------------------------------------------------------------
(* Types.                                                                  *)

LEMMA IdleType == Idle \in Call
BY DEF Idle, Call, BatchStatus, DraftStatus

LEMMA InitType == Init => TypeOK
BY IdleType, CampaignsAssumption DEF Init, TypeOK, BatchStatus, DraftStatus

USE DEF TypeOK, mail, world, spent

LEMMA BeginsType ==
    ASSUME TypeOK, NEW c \in Calls, NEW call \in Call, Begins(c, call)
    PROVE  calls' \in [Calls -> Call] /\ started' \in 0..MaxCalls
BY CampaignsAssumption DEF Begins

LEMMA EndsType ==
    ASSUME TypeOK, NEW c \in Calls, Ends(c)
    PROVE  calls' \in [Calls -> Call]
BY IdleType DEF Ends

(* The record of one call changes, and stays a record of a call. *)
LEMMA CallChanges ==
    ASSUME TypeOK, NEW c \in Calls, NEW r \in Call, calls' = [calls EXCEPT ![c] = r]
    PROVE  calls' \in [Calls -> Call]
OBVIOUS

LEMMA GoesType ==
    ASSUME TypeOK, NEW c \in Calls, NEW pc \in Sending, Goes(c, pc)
    PROVE  calls' \in [Calls -> Call]
<1>1. calls[c] \in Call
  OBVIOUS
<1>2. [calls[c] EXCEPT !.pc = pc] \in Call
  BY <1>1 DEF Call
<1> QED
  BY <1>2, CallChanges DEF Goes

LEMMA SettlesType ==
    ASSUME TypeOK, NEW c \in Calls, NEW p \in People, NEW pc \in Sending,
           NEW outcome \in {"none", "sent", "failed"}, SettlesAs(c, p, pc, outcome)
    PROVE  calls' \in [Calls -> Call]
<1>1. calls[c] \in Call
  OBVIOUS
<1>2. [calls[c] EXCEPT !.pc = pc, !.person = p, !.outcome = outcome,
                  !.todo = calls[c].todo \ {p}] \in Call
  BY <1>1 DEF Call
<1> QED
  BY <1>2, CallChanges DEF SettlesAs

(* A draft gets a new status, and nothing else of it changes type. *)
LEMMA DraftChanges ==
    ASSUME TypeOK, NEW b, NEW p, NEW s \in DraftStatus,
           drafts' = [drafts EXCEPT ![b][p] = s]
    PROVE  drafts' \in [Batches -> [People -> DraftStatus]]
<1>1. CASE b \in Batches
  <2>1. [drafts[b] EXCEPT ![p] = s] \in [People -> DraftStatus]
    BY <1>1
  <2> QED
    BY <2>1, <1>1
<1>2. CASE b \notin Batches
  BY <1>2
<1> QED
  BY <1>1, <1>2

LEMMA BatchChanges ==
    ASSUME TypeOK, NEW b, NEW s \in BatchStatus,
           batches' = [batches EXCEPT ![b].status = s]
    PROVE  batches' \in [Batches -> [status : BatchStatus, source : {"sweep", "composer"}]]
<1>1. CASE b \in Batches
  <2>1. batches[b] \in [status : BatchStatus, source : {"sweep", "composer"}]
    BY <1>1
  <2>2. [batches[b] EXCEPT !.status = s] \in [status : BatchStatus, source : {"sweep", "composer"}]
    BY <2>1
  <2> QED
    BY <2>2, <1>1
<1>2. CASE b \notin Batches
  BY <1>2
<1> QED
  BY <1>1, <1>2

LEMMA LeavesType ==
    ASSUME TypeOK, NEW b, NEW p \in People, Leaves(b, p)
    PROVE  delivered' \in [Batches -> [People -> Nat]]
<1>1. CASE b \in Batches
  <2>1. delivered[b] \in [People -> Nat]
    BY <1>1
  <2>2. [delivered[b] EXCEPT ![p] = @ + 1] \in [People -> Nat]
    BY <2>1
  <2> QED
    BY <2>2, <1>1 DEF Leaves
<1>2. CASE b \notin Batches
  BY <1>2 DEF Leaves
<1> QED
  BY <1>1, <1>2

(* A call that is under way has a batch, and one about to save a draft has *)
(* a person.                                                               *)
Shaped ==
    \A c \in Calls :
        /\ calls[c].pc # "idle" => calls[c].batch \in Batches
        /\ calls[c].pc \in {"edit", "exclude", "settle", "recover"} => calls[c].person \in People

(* Drafting ends with the batch approved or waiting for review. *)
LEMMA DraftingEnds ==
    ASSUME NEW c \in Calls, FinishDrafting(c)
    PROVE  \/ /\ batches' = [batches EXCEPT ![calls[c].batch].status = "approved"]
              /\ approvals' = [approvals EXCEPT ![calls[c].batch] = @ + 1]
              /\ Goes(c, "send")
           \/ /\ batches' = [batches EXCEPT ![calls[c].batch].status = "pending_review"]
              /\ approvals' = approvals
              /\ Ends(c)
BY Zenon DEF FinishDrafting

LEMMA TypeStep ==
    ASSUME TypeOK, Shaped, [Next]_vars
    PROVE  TypeOK'
<1>0. \A c \in Calls : calls[c] \in Call
  OBVIOUS
<1>1. ASSUME NEW c \in Calls, NEW b \in Batches, BeginDrafting(c, b) PROVE TypeOK'
  <2>1. PICK source \in Sources, auto \in AutoApprove, named \in SUBSET People :
          /\ batches' = [batches EXCEPT ![b] = [status |-> "drafting", source |-> source]]
          /\ Begins(c, [Idle EXCEPT !.pc = "drafting", !.batch = b,
                                    !.todo = IF source = "sweep" THEN audience ELSE named,
                                    !.auto = source = "sweep" /\ auto])
    BY <1>1 DEF BeginDrafting
  <2>2. auto \in BOOLEAN /\ source \in {"sweep", "composer"}
    BY CampaignsAssumption
  <2>3. [Idle EXCEPT !.pc = "drafting", !.batch = b,
                     !.todo = IF source = "sweep" THEN audience ELSE named,
                     !.auto = source = "sweep" /\ auto] \in Call
    BY <2>2 DEF Idle, Call, BatchStatus, DraftStatus
  <2>4. calls' \in [Calls -> Call] /\ started' \in 0..MaxCalls
    BY <2>1, <2>3, BeginsType
  <2>5. batches' \in [Batches -> [status : BatchStatus, source : {"sweep", "composer"}]]
    BY <2>1, <2>2 DEF BatchStatus
  <2> QED
    BY <1>1, <2>4, <2>5 DEF BeginDrafting
<1>2. ASSUME NEW c \in Calls, NEW b \in Batches, BeginApprove(c, b) PROVE TypeOK'
  <2>1. [Idle EXCEPT !.pc = "approve", !.batch = b] \in Call
    BY DEF Idle, Call, BatchStatus, DraftStatus
  <2> QED
    BY <1>2, <2>1, BeginsType DEF BeginApprove
<1>3. ASSUME NEW c \in Calls, NEW b \in Batches, BeginDiscard(c, b) PROVE TypeOK'
  <2>1. batches[b].status \in BatchStatus
    OBVIOUS
  <2>2. [Idle EXCEPT !.pc = "discard", !.batch = b, !.seen = batches[b].status] \in Call
    BY <2>1 DEF Idle, Call
  <2> QED
    BY <1>3, <2>2, BeginsType DEF BeginDiscard
<1>4. ASSUME NEW c \in Calls, NEW b \in Batches, NEW p \in People,
             NEW change \in {"edit", "exclude"}, BeginDraftChange(c, b, p, change)
      PROVE  TypeOK'
  <2>1. drafts[b][p] \in DraftStatus
    OBVIOUS
  <2>2. [Idle EXCEPT !.pc = change, !.batch = b, !.person = p, !.seen = drafts[b][p]] \in Call
    BY <2>1 DEF Idle, Call
  <2> QED
    BY <1>4, <2>2, BeginsType DEF BeginDraftChange
<1>5. ASSUME NEW c \in Calls, NEW p \in People, DraftOne(c, p) PROVE TypeOK'
  <2>1. [calls[c] EXCEPT !.todo = calls[c].todo \ {p}] \in Call
    BY <1>0 DEF Call
  <2>2. calls' \in [Calls -> Call]
    BY <1>5, <2>1, CallChanges DEF DraftOne
  <2>3. "draft" \in DraftStatus
    BY DEF DraftStatus
  <2>4. drafts' \in [Batches -> [People -> DraftStatus]]
    BY <1>5, <2>3, DraftChanges DEF DraftOne
  <2> QED
    BY <1>5, <2>2, <2>4 DEF DraftOne
<1>6. ASSUME NEW c \in Calls, FinishDrafting(c) PROVE TypeOK'
  <2>1. "approved" \in BatchStatus /\ "pending_review" \in BatchStatus /\ "send" \in Sending
    BY DEF BatchStatus, Sending
  <2>2. calls' \in [Calls -> Call]
    BY <1>6, <2>1, EndsType, GoesType DEF FinishDrafting
  <2>3. batches' \in [Batches -> [status : BatchStatus, source : {"sweep", "composer"}]]
    BY <1>6, <2>1, BatchChanges DEF FinishDrafting
  <2>4. approvals' \in [Batches -> Nat]
    <3>1. calls[c].batch \in Batches /\ approvals[calls[c].batch] \in Nat
      BY <1>6 DEF FinishDrafting, Shaped
    <3>2. approvals' = approvals \/ approvals' = [approvals EXCEPT ![calls[c].batch] = @ + 1]
      BY <1>6, DraftingEnds
    <3>3. CASE approvals' = [approvals EXCEPT ![calls[c].batch] = @ + 1]
      BY <3>1, <3>3
    <3> QED
      BY <3>2, <3>3
  <2> QED
    BY <1>6, <2>2, <2>3, <2>4 DEF FinishDrafting
<1>7. ASSUME NEW c \in Calls, EditDraft(c) \/ ExcludeDraft(c) PROVE TypeOK'
  <2>1. "edited" \in DraftStatus /\ "excluded" \in DraftStatus
    BY DEF DraftStatus
  <2>2. drafts' \in [Batches -> [People -> DraftStatus]]
    BY <1>7, <2>1, DraftChanges DEF EditDraft, ExcludeDraft, SaveDraft
  <2> QED
    BY <1>7, <2>2, EndsType DEF EditDraft, ExcludeDraft
<1>8. ASSUME NEW c \in Calls, Approve(c) PROVE TypeOK'
  <2>1. "approved" \in BatchStatus /\ "send" \in Sending
    BY DEF BatchStatus, Sending
  <2>2. calls' \in [Calls -> Call]
    BY <1>8, <2>1, GoesType DEF Approve
  <2>3. batches' \in [Batches -> [status : BatchStatus, source : {"sweep", "composer"}]]
    BY <1>8, <2>1, BatchChanges DEF Approve
  <2> QED
    BY <1>8, <2>2, <2>3 DEF Approve
<1>9. ASSUME NEW c \in Calls, Discard(c) PROVE TypeOK'
  <2>1. "discarded" \in BatchStatus
    BY DEF BatchStatus
  <2>2. batches' \in [Batches -> [status : BatchStatus, source : {"sweep", "composer"}]]
    BY <1>9, <2>1, BatchChanges DEF Discard
  <2> QED
    BY <1>9, <2>2, EndsType DEF Discard
<1>10. ASSUME NEW c \in Calls, SendReads(c) PROVE TypeOK'
  <2>1. batches[calls[c].batch].status \in BatchStatus
    BY <1>10 DEF SendReads, Shaped
  <2>2. [calls[c] EXCEPT !.pc = "sending", !.seen = batches[calls[c].batch].status] \in Call
    BY <1>0, <2>1 DEF Call, Sending
  <2>3. calls' \in [Calls -> Call]
    BY <1>10, <2>2, CallChanges DEF SendReads
  <2> QED
    BY <1>10, <2>3 DEF SendReads
<1>11. ASSUME NEW c \in Calls, SendSaves(c) PROVE TypeOK'
  <2>1. "sending" \in BatchStatus /\ "snapshot" \in Sending
    BY DEF BatchStatus, Sending
  <2>2. calls' \in [Calls -> Call]
    BY <1>11, <2>1, GoesType DEF SendSaves
  <2>3. batches' \in [Batches -> [status : BatchStatus, source : {"sweep", "composer"}]]
    BY <1>11, <2>1, BatchChanges DEF SendSaves
  <2> QED
    BY <1>11, <2>2, <2>3 DEF SendSaves
<1>12. ASSUME NEW c \in Calls, SendSnapshots(c) PROVE TypeOK'
  <2> DEFINE unsent == {p \in People : drafts[calls[c].batch][p] \in Unsent}
  <2>1. [calls[c] EXCEPT !.pc = "mail", !.todo = unsent] \in Call
    BY <1>0 DEF Call, Sending
  <2>2. calls' \in [Calls -> Call]
    BY <1>12, <2>1, CallChanges DEF SendSnapshots
  <2> QED
    BY <1>12, <2>2 DEF SendSnapshots
<1>13. ASSUME NEW c \in Calls, NEW p \in People, MailRefused(c, p) PROVE TypeOK'
  <2>1. calls' \in [Calls -> Call]
    BY <1>13, SettlesType DEF MailRefused, Sending
  <2> QED
    BY <1>13, <2>1 DEF MailRefused
<1>14. ASSUME NEW c \in Calls, NEW p \in People, MailSent(c, p) PROVE TypeOK'
  <2>1. calls' \in [Calls -> Call]
    BY <1>14, SettlesType DEF MailSent, Sending
  <2>2. delivered' \in [Batches -> [People -> Nat]]
    BY <1>14, LeavesType DEF MailSent
  <2> QED
    BY <1>14, <2>1, <2>2 DEF MailSent
<1>15. ASSUME NEW c \in Calls, NEW p \in People, MailThrows(c, p) PROVE TypeOK'
  <2>1. calls' \in [Calls -> Call]
    BY <1>15, SettlesType DEF MailThrows, Sending
  <2>2. delivered' \in [Batches -> [People -> Nat]]
    BY <1>15, LeavesType DEF MailThrows
  <2>3. faults' \in 0..MaxFaults
    BY <1>15, CampaignsAssumption DEF MailThrows
  <2> QED
    BY <1>15, <2>1, <2>2, <2>3 DEF MailThrows
<1>16. ASSUME NEW c \in Calls, Settle(c) PROVE TypeOK'
  <2>1. calls[c].outcome \in {"none", "sent", "failed"}
    BY <1>0 DEF Call
  <2>2. calls[c].outcome \in DraftStatus
    BY <2>1 DEF DraftStatus
  <2>3. drafts' \in [Batches -> [People -> DraftStatus]]
    BY <1>16, <2>2, DraftChanges DEF Settle
  <2>4. [calls[c] EXCEPT !.pc = "mail", !.person = Nobody, !.outcome = "none"] \in Call
    BY <1>0 DEF Call, Sending
  <2>5. calls' \in [Calls -> Call]
    BY <1>16, <2>4, CallChanges DEF Settle
  <2> QED
    BY <1>16, <2>3, <2>5 DEF Settle
<1>17. ASSUME NEW c \in Calls, FinishSend(c) PROVE TypeOK'
  <2>1. "sent" \in BatchStatus
    BY DEF BatchStatus
  <2>2. batches' \in [Batches -> [status : BatchStatus, source : {"sweep", "composer"}]]
    BY <1>17, <2>1, BatchChanges DEF FinishSend
  <2> QED
    BY <1>17, <2>2, EndsType DEF FinishSend
<1>18. ASSUME NEW c \in Calls, SaveThrows(c) PROVE TypeOK'
  <2>1. faults' \in 0..MaxFaults
    BY <1>18, CampaignsAssumption DEF SaveThrows
  <2>2. [calls[c] EXCEPT !.pc = "recover", !.outcome = "failed"] \in Call
    BY <1>0 DEF Call, Sending
  <2>3. calls' \in [Calls -> Call]
    BY <1>18, <2>2, CallChanges, EndsType DEF SaveThrows
  <2> QED
    BY <1>18, <2>1, <2>3 DEF SaveThrows
<1>19. ASSUME Crash PROVE TypeOK'
  BY <1>19, IdleType, CampaignsAssumption DEF Crash
<1>20. ASSUME NEW p \in People, LeavesAudience(p) \/ CapExpires(p) PROVE TypeOK'
  BY <1>20 DEF LeavesAudience, CapExpires
<1>21. ASSUME UNCHANGED vars PROVE TypeOK'
  BY <1>21 DEF vars
<1> QED
  BY <1>1, <1>2, <1>3, <1>4, <1>5, <1>6, <1>7, <1>8, <1>9, <1>10, <1>11, <1>12, <1>13,
     <1>14, <1>15, <1>16, <1>17, <1>18, <1>19, <1>20, <1>21
     DEF Next, Requested, Proceeds, MailOne

-------------------------------------------------------------------------------
(* Every call knows its batch, and its person where it needs one.          *)

LEMMA ShapedStep ==
    ASSUME TypeOK, Shaped, [Next]_vars
    PROVE  Shaped'
<1>1. ASSUME NEW c \in Calls, NEW b \in Batches, BeginDrafting(c, b) PROVE Shaped'
  BY <1>1 DEF BeginDrafting, Shaped, Begins, Idle
<1>2. ASSUME NEW c \in Calls, NEW b \in Batches, BeginApprove(c, b) PROVE Shaped'
  BY <1>2 DEF BeginApprove, Shaped, Begins, Idle
<1>3. ASSUME NEW c \in Calls, NEW b \in Batches, BeginDiscard(c, b) PROVE Shaped'
  BY <1>3 DEF BeginDiscard, Shaped, Begins, Idle
<1>4. ASSUME NEW c \in Calls, NEW b \in Batches, NEW p \in People,
             NEW change \in {"edit", "exclude"}, BeginDraftChange(c, b, p, change) PROVE Shaped'
  BY <1>4 DEF BeginDraftChange, Shaped, Begins, Idle
<1>5. ASSUME NEW c \in Calls, NEW p \in People, DraftOne(c, p) PROVE Shaped'
  BY <1>5 DEF DraftOne, Shaped, Goes, Ends, Idle, SettlesAs
<1>6. ASSUME NEW c \in Calls, FinishDrafting(c) PROVE Shaped'
  <2>1. Goes(c, "send") \/ Ends(c)
    BY <1>6, DraftingEnds
  <2>2. CASE Goes(c, "send")
    BY <1>6, <2>2 DEF FinishDrafting, Goes, Shaped
  <2> QED
    BY <2>1, <2>2 DEF Ends, Shaped, Idle
<1>7. ASSUME NEW c \in Calls, EditDraft(c) PROVE Shaped'
  BY <1>7 DEF EditDraft, Shaped, Goes, Ends, Idle, SettlesAs
<1>8. ASSUME NEW c \in Calls, ExcludeDraft(c) PROVE Shaped'
  BY <1>8 DEF ExcludeDraft, Shaped, Goes, Ends, Idle, SettlesAs
<1>9. ASSUME NEW c \in Calls, Approve(c) PROVE Shaped'
  BY <1>9 DEF Approve, Shaped, Goes, Ends, Idle, SettlesAs
<1>10. ASSUME NEW c \in Calls, Discard(c) PROVE Shaped'
  BY <1>10 DEF Discard, Shaped, Goes, Ends, Idle, SettlesAs
<1>11. ASSUME NEW c \in Calls, SendReads(c) PROVE Shaped'
  BY <1>11 DEF SendReads, Shaped, Goes, Ends, Idle, SettlesAs
<1>12. ASSUME NEW c \in Calls, SendSaves(c) PROVE Shaped'
  BY <1>12 DEF SendSaves, Shaped, Goes, Ends, Idle, SettlesAs
<1>13. ASSUME NEW c \in Calls, SendSnapshots(c) PROVE Shaped'
  BY <1>13 DEF SendSnapshots, Shaped, Goes, Ends, Idle, SettlesAs
<1>14. ASSUME NEW c \in Calls, NEW p \in People, MailRefused(c, p) PROVE Shaped'
  BY <1>14 DEF MailRefused, Shaped, Goes, Ends, Idle, SettlesAs
<1>15. ASSUME NEW c \in Calls, NEW p \in People, MailSent(c, p) PROVE Shaped'
  BY <1>15 DEF MailSent, Shaped, Goes, Ends, Idle, SettlesAs
<1>16. ASSUME NEW c \in Calls, NEW p \in People, MailThrows(c, p) PROVE Shaped'
  BY <1>16 DEF MailThrows, Shaped, Goes, Ends, Idle, SettlesAs
<1>17. ASSUME NEW c \in Calls, Settle(c) PROVE Shaped'
  BY <1>17 DEF Settle, Shaped, Goes, Ends, Idle, SettlesAs
<1>18. ASSUME NEW c \in Calls, FinishSend(c) PROVE Shaped'
  BY <1>18 DEF FinishSend, Shaped, Goes, Ends, Idle, SettlesAs
<1>19. ASSUME NEW c \in Calls, SaveThrows(c) PROVE Shaped'
  <2>1. CASE calls[c].pc = "settle"
    <3>1. calls' = [calls EXCEPT ![c] = [calls[c] EXCEPT !.pc = "recover", !.outcome = "failed"]]
      BY <1>19, <2>1 DEF SaveThrows
    <3>2. calls'[c].batch = calls[c].batch /\ calls'[c].person = calls[c].person
      BY <3>1 DEF Call
    <3> QED
      BY <2>1, <3>1, <3>2 DEF Shaped
  <2>2. CASE calls[c].pc # "settle"
    BY <1>19, <2>2 DEF SaveThrows, Shaped, Ends, Idle
  <2> QED
    BY <2>1, <2>2
<1>20. ASSUME Crash PROVE Shaped'
  BY <1>20 DEF Crash, Shaped, Idle
<1>21. ASSUME NEW p \in People, LeavesAudience(p) \/ CapExpires(p) PROVE Shaped'
  BY <1>21 DEF LeavesAudience, CapExpires, Shaped
<1>22. ASSUME UNCHANGED vars PROVE Shaped'
  BY <1>22 DEF vars, Shaped
<1> QED
  BY <1>1, <1>2, <1>3, <1>4, <1>5, <1>6, <1>7, <1>8, <1>9, <1>10, <1>11,
     <1>12, <1>13, <1>14, <1>15, <1>16, <1>17, <1>18, <1>19, <1>20, <1>21, <1>22
     DEF Next, Requested, Proceeds, MailOne

-------------------------------------------------------------------------------
LEMMA NoBatchOutside == NoBatch \notin Batches
BY CampaignsAssumption DEF NoBatch, Batches

(* A mail that leaves is counted once, for its batch and person. *)
LEMMA LeavesEffect ==
    ASSUME TypeOK, NEW b \in Batches, NEW p \in People, Leaves(b, p)
    PROVE  /\ delivered'[b][p] = delivered[b][p] + 1
           /\ \A a \in Batches, q \in People : a # b \/ q # p =>
                 delivered'[a][q] = delivered[a][q]
<1>1. delivered' = [delivered EXCEPT ![b] = [delivered[b] EXCEPT ![p] = delivered[b][p] + 1]]
  BY DEF Leaves
<1> QED
  BY <1>1

(* What a throw, and the end of drafting, do to the calls and the batches. *)
LEMMA ThrowEffect ==
    ASSUME TypeOK, NEW c \in Calls, SaveThrows(c)
    PROVE  /\ batches' = batches /\ approvals' = approvals
           /\ drafts' = drafts /\ delivered' = delivered
           /\ \A d \in Calls : d # c => calls'[d] = calls[d]
           /\ \/ calls'[c].pc = "idle" /\ calls'[c].batch = NoBatch
              \/ /\ calls[c].pc = "settle" /\ calls'[c].pc = "recover"
                 /\ calls'[c].batch = calls[c].batch /\ calls'[c].person = calls[c].person
                 /\ calls'[c].todo = calls[c].todo /\ calls'[c].outcome = "failed"
<1>1. CASE calls[c].pc = "settle"
  <2>1. calls' = [calls EXCEPT ![c] = [calls[c] EXCEPT !.pc = "recover", !.outcome = "failed"]]
    BY <1>1 DEF SaveThrows
  <2> QED
    BY <1>1, <2>1 DEF SaveThrows, Call
<1>2. CASE calls[c].pc # "settle"
  BY <1>2 DEF SaveThrows, Ends, Idle
<1> QED
  BY <1>1, <1>2

LEMMA DraftingEffect ==
    ASSUME TypeOK, Shaped, NEW c \in Calls, FinishDrafting(c)
    PROVE  /\ calls[c].pc = "drafting" /\ calls[c].batch \in Batches
           /\ drafts' = drafts /\ delivered' = delivered
           /\ batches'[calls[c].batch].status \in {"approved", "pending_review"}
           /\ approvals'[calls[c].batch] \in {approvals[calls[c].batch], approvals[calls[c].batch] + 1}
           /\ \A a \in Batches : a # calls[c].batch =>
                 batches'[a] = batches[a] /\ approvals'[a] = approvals[a]
           /\ \A d \in Calls : d # c => calls'[d] = calls[d]
           /\ \/ /\ calls'[c].pc = "idle" /\ calls'[c].batch = NoBatch
                 /\ approvals' = approvals
              \/ /\ calls'[c].pc = "send" /\ calls'[c].batch = calls[c].batch
                 /\ approvals'[calls[c].batch] = approvals[calls[c].batch] + 1
<1>1. calls[c].pc = "drafting" /\ calls[c].batch \in Batches /\ drafts' = drafts /\ delivered' = delivered
  BY DEF FinishDrafting, Shaped
<1>2. CASE /\ batches' = [batches EXCEPT ![calls[c].batch].status = "approved"]
           /\ approvals' = [approvals EXCEPT ![calls[c].batch] = @ + 1]
           /\ Goes(c, "send")
  <2>1. calls' = [calls EXCEPT ![c] = [calls[c] EXCEPT !.pc = "send"]]
    BY <1>2 DEF Goes
  <2>2. calls'[c].pc = "send" /\ calls'[c].batch = calls[c].batch
    BY <2>1 DEF Call
  <2> QED
    BY <1>1, <1>2, <2>1, <2>2
<1>3. CASE /\ batches' = [batches EXCEPT ![calls[c].batch].status = "pending_review"]
           /\ approvals' = approvals
           /\ Ends(c)
  <2>1. calls' = [calls EXCEPT ![c] = Idle]
    BY <1>3 DEF Ends
  <2>2. calls'[c].pc = "idle" /\ calls'[c].batch = NoBatch
    BY <2>1 DEF Idle
  <2> QED
    BY <1>1, <1>3, <2>1, <2>2
<1> QED
  BY <1>2, <1>3, DraftingEnds

(* Before it is drafted a batch has nothing, and no call knows of it.      *)

Unborn ==
    \A b \in Batches : batches[b].status = "absent" =>
        /\ approvals[b] = 0
        /\ \A p \in People : drafts[b][p] = "none"
        /\ \A c \in Calls : calls[c].batch # b

LEMMA UnbornStep ==
    ASSUME TypeOK, Shaped, Unborn, [Next]_vars
    PROVE  Unborn'
<1>1. ASSUME NEW c \in Calls, NEW b \in Batches, BeginDrafting(c, b) PROVE Unborn'
  BY <1>1, NoBatchOutside DEF BeginDrafting, Unborn, Begins, Idle, Shaped
<1>2. ASSUME NEW c \in Calls, NEW b \in Batches, BeginApprove(c, b) PROVE Unborn'
  BY <1>2, NoBatchOutside DEF BeginApprove, Unborn, Begins, Idle, Shaped
<1>3. ASSUME NEW c \in Calls, NEW b \in Batches, BeginDiscard(c, b) PROVE Unborn'
  BY <1>3, NoBatchOutside DEF BeginDiscard, Unborn, Begins, Idle, Shaped
<1>4. ASSUME NEW c \in Calls, NEW b \in Batches, NEW p \in People,
             NEW change \in {"edit", "exclude"}, BeginDraftChange(c, b, p, change) PROVE Unborn'
  BY <1>4, NoBatchOutside DEF BeginDraftChange, Unborn, Begins, Idle, Shaped
<1>5. ASSUME NEW c \in Calls, NEW p \in People, DraftOne(c, p) PROVE Unborn'
  BY <1>5, NoBatchOutside DEF DraftOne, Unborn, Goes, Ends, Idle, Shaped
<1>6. ASSUME NEW c \in Calls, FinishDrafting(c) PROVE Unborn'
  <2>1. SUFFICES ASSUME NEW a \in Batches, batches'[a].status = "absent"
        PROVE  /\ approvals'[a] = 0
               /\ \A p \in People : drafts'[a][p] = "none"
               /\ \A d \in Calls : calls'[d].batch # a
    BY DEF Unborn
  <2>2. a # calls[c].batch
    BY <1>6, <2>1, DraftingEffect
  <2>3. batches[a].status = "absent" /\ approvals'[a] = approvals[a] /\ drafts' = drafts
    BY <1>6, <2>1, <2>2, DraftingEffect
  <2>4. calls'[c].batch # a
    BY <1>6, <2>2, DraftingEffect, NoBatchOutside
  <2>5. \A d \in Calls : d # c => calls'[d] = calls[d]
    BY <1>6, DraftingEffect
  <2> QED
    BY <2>3, <2>4, <2>5 DEF Unborn
<1>7. ASSUME NEW c \in Calls, EditDraft(c) PROVE Unborn'
  BY <1>7, NoBatchOutside DEF EditDraft, Unborn, Goes, Ends, Idle, SaveDraft, Shaped
<1>8. ASSUME NEW c \in Calls, ExcludeDraft(c) PROVE Unborn'
  BY <1>8, NoBatchOutside DEF ExcludeDraft, Unborn, Goes, Ends, Idle, SaveDraft, Shaped
<1>9. ASSUME NEW c \in Calls, Approve(c) PROVE Unborn'
  BY <1>9, NoBatchOutside DEF Approve, Unborn, Goes, Ends, Idle, Shaped
<1>10. ASSUME NEW c \in Calls, Discard(c) PROVE Unborn'
  BY <1>10, NoBatchOutside DEF Discard, Unborn, Goes, Ends, Idle, Shaped
<1>11. ASSUME NEW c \in Calls, SendReads(c) PROVE Unborn'
  BY <1>11, NoBatchOutside DEF SendReads, Unborn, Goes, Ends, Idle, Shaped
<1>12. ASSUME NEW c \in Calls, SendSaves(c) PROVE Unborn'
  BY <1>12, NoBatchOutside DEF SendSaves, Unborn, Goes, Ends, Idle, Shaped
<1>13. ASSUME NEW c \in Calls, SendSnapshots(c) PROVE Unborn'
  BY <1>13, NoBatchOutside DEF SendSnapshots, Unborn, Goes, Ends, Idle, Shaped
<1>14. ASSUME NEW c \in Calls, NEW p \in People, MailRefused(c, p) PROVE Unborn'
  BY <1>14, NoBatchOutside DEF MailRefused, Unborn, SettlesAs, Shaped
<1>15. ASSUME NEW c \in Calls, NEW p \in People, MailSent(c, p) PROVE Unborn'
  BY <1>15, NoBatchOutside DEF MailSent, Unborn, SettlesAs, Leaves, Shaped
<1>16. ASSUME NEW c \in Calls, NEW p \in People, MailThrows(c, p) PROVE Unborn'
  BY <1>16, NoBatchOutside DEF MailThrows, Unborn, SettlesAs, Leaves, Shaped
<1>17. ASSUME NEW c \in Calls, Settle(c) PROVE Unborn'
  BY <1>17, NoBatchOutside DEF Settle, Unborn, Goes, Ends, Idle, Shaped
<1>18. ASSUME NEW c \in Calls, FinishSend(c) PROVE Unborn'
  BY <1>18, NoBatchOutside DEF FinishSend, Unborn, Goes, Ends, Idle, Shaped
<1>19. ASSUME NEW c \in Calls, SaveThrows(c) PROVE Unborn'
  BY <1>19, ThrowEffect, NoBatchOutside DEF Unborn, Shaped
<1>20. ASSUME Crash PROVE Unborn'
  BY <1>20, NoBatchOutside DEF Crash, Unborn, Idle, Shaped
<1>21. ASSUME NEW p \in People, LeavesAudience(p) \/ CapExpires(p) PROVE Unborn'
  BY <1>21 DEF LeavesAudience, CapExpires, Unborn, Shaped
<1>22. ASSUME UNCHANGED vars PROVE Unborn'
  BY <1>22 DEF vars, Unborn, Shaped
<1> QED
  BY <1>1, <1>2, <1>3, <1>4, <1>5, <1>6, <1>7, <1>8, <1>9, <1>10, <1>11,
     <1>12, <1>13, <1>14, <1>15, <1>16, <1>17, <1>18, <1>19, <1>20, <1>21, <1>22
     DEF Next, Requested, Proceeds, MailOne

(* While a batch is drafted nobody approves or sends it. *)
DraftingAlone ==
    \A c \in Calls : calls[c].pc = "drafting" =>
        /\ batches[calls[c].batch].status \in {"drafting", "discarded"}
        /\ approvals[calls[c].batch] = 0
        /\ \A d \in Calls : d # c /\ calls[d].batch = calls[c].batch =>
              calls[d].pc \in {"edit", "exclude", "discard"}

LEMMA AloneStep ==
    ASSUME TypeOK, Shaped, Unborn, DraftingAlone, [Next]_vars
    PROVE  DraftingAlone'
<1>1. ASSUME NEW c \in Calls, NEW b \in Batches, BeginDrafting(c, b) PROVE DraftingAlone'
  <2>1. /\ approvals' = approvals /\ batches'[b].status = "drafting"
        /\ \A a \in Batches : a # b => batches'[a] = batches[a]
        /\ \A d \in Calls : d # c => calls'[d] = calls[d]
        /\ calls'[c].batch = b
    <3>1. PICK source, call :
            /\ batches' = [batches EXCEPT ![b] = [status |-> "drafting", source |-> source]]
            /\ call.batch = b
            /\ Begins(c, call)
      BY <1>1 DEF BeginDrafting, Idle
    <3> QED
      BY <1>1, <3>1 DEF BeginDrafting, Begins
  <2>2. approvals[b] = 0 /\ \A d \in Calls : calls[d].batch # b
    BY <1>1 DEF BeginDrafting, Unborn
  <2>3. \A d \in Calls : calls[d].pc = "drafting" => calls[d].batch \in Batches
    BY DEF Shaped
  <2>4. ASSUME NEW d \in Calls, d # c, calls'[d].pc = "drafting"
        PROVE  /\ batches'[calls'[d].batch].status \in {"drafting", "discarded"}
               /\ approvals'[calls'[d].batch] = 0
               /\ \A e \in Calls : e # d /\ calls'[e].batch = calls'[d].batch =>
                     calls'[e].pc \in {"edit", "exclude", "discard"}
    <3>1. calls'[d] = calls[d] /\ calls[d].pc = "drafting"
          /\ calls[d].batch \in Batches /\ calls[d].batch # b
      BY <2>1, <2>2, <2>3, <2>4
    <3>2. batches'[calls[d].batch] = batches[calls[d].batch]
      BY <2>1, <3>1
    <3> QED
      BY <2>1, <3>1, <3>2 DEF DraftingAlone
  <2>5. \A e \in Calls : e # c => calls'[e].batch # b
    BY <2>1, <2>2
  <2> QED
    BY <2>1, <2>2, <2>4, <2>5 DEF DraftingAlone
<1>2. ASSUME NEW c \in Calls, NEW b \in Batches, BeginApprove(c, b) PROVE DraftingAlone'
  BY <1>2, NoBatchOutside DEF BeginApprove, DraftingAlone, Begins, Idle, Shaped
<1>3. ASSUME NEW c \in Calls, NEW b \in Batches, BeginDiscard(c, b) PROVE DraftingAlone'
  BY <1>3, NoBatchOutside DEF BeginDiscard, DraftingAlone, Begins, Idle, Shaped
<1>4. ASSUME NEW c \in Calls, NEW b \in Batches, NEW p \in People,
             NEW change \in {"edit", "exclude"}, BeginDraftChange(c, b, p, change) PROVE DraftingAlone'
  BY <1>4, NoBatchOutside DEF BeginDraftChange, DraftingAlone, Begins, Idle, Shaped
<1>5. ASSUME NEW c \in Calls, NEW p \in People, DraftOne(c, p) PROVE DraftingAlone'
  BY <1>5, NoBatchOutside DEF DraftOne, DraftingAlone, Goes, Ends, Idle, Shaped
<1>6. ASSUME NEW c \in Calls, FinishDrafting(c) PROVE DraftingAlone'
  BY <1>6, DraftingEffect, NoBatchOutside DEF DraftingAlone, Shaped
<1>7. ASSUME NEW c \in Calls, EditDraft(c) PROVE DraftingAlone'
  BY <1>7, NoBatchOutside DEF EditDraft, DraftingAlone, Goes, Ends, Idle, SaveDraft, Shaped
<1>8. ASSUME NEW c \in Calls, ExcludeDraft(c) PROVE DraftingAlone'
  BY <1>8, NoBatchOutside DEF ExcludeDraft, DraftingAlone, Goes, Ends, Idle, SaveDraft, Shaped
<1>9. ASSUME NEW c \in Calls, Approve(c) PROVE DraftingAlone'
  BY <1>9, NoBatchOutside DEF Approve, DraftingAlone, Goes, Ends, Idle, Shaped
<1>10. ASSUME NEW c \in Calls, Discard(c) PROVE DraftingAlone'
  BY <1>10, NoBatchOutside DEF Discard, DraftingAlone, Goes, Ends, Idle, Shaped
<1>11. ASSUME NEW c \in Calls, SendReads(c) PROVE DraftingAlone'
  BY <1>11, NoBatchOutside DEF SendReads, DraftingAlone, Goes, Ends, Idle, Shaped
<1>12. ASSUME NEW c \in Calls, SendSaves(c) PROVE DraftingAlone'
  BY <1>12, NoBatchOutside DEF SendSaves, DraftingAlone, Goes, Ends, Idle, Shaped
<1>13. ASSUME NEW c \in Calls, SendSnapshots(c) PROVE DraftingAlone'
  BY <1>13, NoBatchOutside DEF SendSnapshots, DraftingAlone, Goes, Ends, Idle, Shaped
<1>14. ASSUME NEW c \in Calls, NEW p \in People, MailRefused(c, p) PROVE DraftingAlone'
  BY <1>14, NoBatchOutside DEF MailRefused, DraftingAlone, SettlesAs, Shaped
<1>15. ASSUME NEW c \in Calls, NEW p \in People, MailSent(c, p) PROVE DraftingAlone'
  BY <1>15, NoBatchOutside DEF MailSent, DraftingAlone, SettlesAs, Leaves, Shaped
<1>16. ASSUME NEW c \in Calls, NEW p \in People, MailThrows(c, p) PROVE DraftingAlone'
  BY <1>16, NoBatchOutside DEF MailThrows, DraftingAlone, SettlesAs, Leaves, Shaped
<1>17. ASSUME NEW c \in Calls, Settle(c) PROVE DraftingAlone'
  BY <1>17, NoBatchOutside DEF Settle, DraftingAlone, Goes, Ends, Idle, Shaped
<1>18. ASSUME NEW c \in Calls, FinishSend(c) PROVE DraftingAlone'
  BY <1>18, NoBatchOutside DEF FinishSend, DraftingAlone, Goes, Ends, Idle, Shaped
<1>19. ASSUME NEW c \in Calls, SaveThrows(c) PROVE DraftingAlone'
  BY <1>19, ThrowEffect, NoBatchOutside DEF DraftingAlone, Shaped
<1>20. ASSUME Crash PROVE DraftingAlone'
  BY <1>20, NoBatchOutside DEF Crash, DraftingAlone, Idle, Shaped
<1>21. ASSUME NEW p \in People, LeavesAudience(p) \/ CapExpires(p) PROVE DraftingAlone'
  BY <1>21 DEF LeavesAudience, CapExpires, DraftingAlone, Shaped
<1>22. ASSUME UNCHANGED vars PROVE DraftingAlone'
  BY <1>22 DEF vars, DraftingAlone, Shaped
<1> QED
  BY <1>1, <1>2, <1>3, <1>4, <1>5, <1>6, <1>7, <1>8, <1>9, <1>10, <1>11,
     <1>12, <1>13, <1>14, <1>15, <1>16, <1>17, <1>18, <1>19, <1>20, <1>21, <1>22
     DEF Next, Requested, Proceeds, MailOne

(* A draft that is, or is about to be, saved as sent has left. *)
Honest ==
    /\ \A b \in Batches, p \in People : drafts[b][p] = "sent" => delivered[b][p] > 0
    /\ \A c \in Calls :
          /\ calls[c].pc = "recover" => calls[c].outcome = "failed"
          /\ calls[c].pc = "settle" /\ calls[c].outcome = "sent"
               => delivered[calls[c].batch][calls[c].person] > 0

LEMMA HonestStep ==
    ASSUME TypeOK, Shaped, Honest, [Next]_vars
    PROVE  Honest'
<1>1. ASSUME NEW c \in Calls, NEW b \in Batches, BeginDrafting(c, b) PROVE Honest'
  BY <1>1, NoBatchOutside DEF BeginDrafting, Honest, Begins, Idle, Shaped
<1>2. ASSUME NEW c \in Calls, NEW b \in Batches, BeginApprove(c, b) PROVE Honest'
  BY <1>2, NoBatchOutside DEF BeginApprove, Honest, Begins, Idle, Shaped
<1>3. ASSUME NEW c \in Calls, NEW b \in Batches, BeginDiscard(c, b) PROVE Honest'
  BY <1>3, NoBatchOutside DEF BeginDiscard, Honest, Begins, Idle, Shaped
<1>4. ASSUME NEW c \in Calls, NEW b \in Batches, NEW p \in People,
             NEW change \in {"edit", "exclude"}, BeginDraftChange(c, b, p, change) PROVE Honest'
  BY <1>4, NoBatchOutside DEF BeginDraftChange, Honest, Begins, Idle, Shaped
<1>5. ASSUME NEW c \in Calls, NEW p \in People, DraftOne(c, p) PROVE Honest'
  <2>1. /\ delivered' = delivered
        /\ \A b \in Batches, q \in People : drafts'[b][q] = "sent" => drafts[b][q] = "sent"
        /\ \A d \in Calls : calls'[d] = calls[d] \/ calls'[d].pc = "drafting"
    BY <1>5 DEF DraftOne, Call
  <2> QED
    BY <2>1 DEF Honest
<1>6. ASSUME NEW c \in Calls, FinishDrafting(c) PROVE Honest'
  BY <1>6, DraftingEffect, NoBatchOutside DEF Honest, Shaped
<1>7. ASSUME NEW c \in Calls, EditDraft(c) PROVE Honest'
  BY <1>7, NoBatchOutside DEF EditDraft, Honest, Goes, Ends, Idle, SaveDraft, Shaped
<1>8. ASSUME NEW c \in Calls, ExcludeDraft(c) PROVE Honest'
  BY <1>8, NoBatchOutside DEF ExcludeDraft, Honest, Goes, Ends, Idle, SaveDraft, Shaped
<1>9. ASSUME NEW c \in Calls, Approve(c) PROVE Honest'
  BY <1>9, NoBatchOutside DEF Approve, Honest, Goes, Ends, Idle, Shaped
<1>10. ASSUME NEW c \in Calls, Discard(c) PROVE Honest'
  BY <1>10, NoBatchOutside DEF Discard, Honest, Goes, Ends, Idle, Shaped
<1>11. ASSUME NEW c \in Calls, SendReads(c) PROVE Honest'
  BY <1>11, NoBatchOutside DEF SendReads, Honest, Goes, Ends, Idle, Shaped
<1>12. ASSUME NEW c \in Calls, SendSaves(c) PROVE Honest'
  BY <1>12, NoBatchOutside DEF SendSaves, Honest, Goes, Ends, Idle, Shaped
<1>13. ASSUME NEW c \in Calls, SendSnapshots(c) PROVE Honest'
  BY <1>13, NoBatchOutside DEF SendSnapshots, Honest, Goes, Ends, Idle, Shaped
<1>14. ASSUME NEW c \in Calls, NEW p \in People, MailRefused(c, p) PROVE Honest'
  BY <1>14, NoBatchOutside DEF MailRefused, Honest, SettlesAs, Shaped
<1>15. ASSUME NEW c \in Calls, NEW p \in People, MailSent(c, p) PROVE Honest'
  BY <1>15, NoBatchOutside DEF MailSent, Honest, SettlesAs, Leaves, Shaped
<1>16. ASSUME NEW c \in Calls, NEW p \in People, MailThrows(c, p) PROVE Honest'
  <2>1. calls' = [calls EXCEPT ![c] = [calls[c] EXCEPT !.pc = "recover", !.person = p,
                     !.outcome = "failed", !.todo = calls[c].todo \ {p}]]
    BY <1>16 DEF MailThrows, SettlesAs
  <2>2. calls'[c].pc = "recover" /\ calls'[c].outcome = "failed"
    BY <2>1 DEF Call
  <2>3. \A b \in Batches, q \in People :
          delivered[b][q] > 0 => delivered'[b][q] > 0
    <3>1. calls[c].batch \in Batches
      BY <1>16 DEF MailThrows, Shaped
    <3>2. CASE Leaves(calls[c].batch, p)
      <4>1. PICK b \in Batches : b = calls[c].batch
        BY <3>1
      <4>2. Leaves(b, p)
        BY <3>2, <4>1
      <4>3. delivered[b][p] \in Nat /\ delivered'[b][p] = delivered[b][p] + 1
        BY <4>2, LeavesEffect
      <4>4. delivered'[b][p] > 0
        BY <4>3
      <4>5. \A a \in Batches, q \in People : a # b \/ q # p => delivered'[a][q] = delivered[a][q]
        BY <4>2, LeavesEffect
      <4> QED
        BY <4>4, <4>5
    <3>3. CASE delivered' = delivered
      BY <3>3
    <3> QED
      BY <1>16, <3>2, <3>3 DEF MailThrows
  <2>4. \A d \in Calls : d # c => calls'[d] = calls[d]
    BY <2>1
  <2>5. drafts' = drafts
    BY <1>16 DEF MailThrows
  <2> QED
    BY <2>2, <2>3, <2>4, <2>5 DEF Honest, Shaped
<1>17. ASSUME NEW c \in Calls, Settle(c) PROVE Honest'
  BY <1>17, NoBatchOutside DEF Settle, Honest, Goes, Ends, Idle, Shaped
<1>18. ASSUME NEW c \in Calls, FinishSend(c) PROVE Honest'
  BY <1>18, NoBatchOutside DEF FinishSend, Honest, Goes, Ends, Idle, Shaped
<1>19. ASSUME NEW c \in Calls, SaveThrows(c) PROVE Honest'
  BY <1>19, ThrowEffect, NoBatchOutside DEF Honest, Shaped
<1>20. ASSUME Crash PROVE Honest'
  BY <1>20, NoBatchOutside DEF Crash, Honest, Idle, Shaped
<1>21. ASSUME NEW p \in People, LeavesAudience(p) \/ CapExpires(p) PROVE Honest'
  BY <1>21 DEF LeavesAudience, CapExpires, Honest, Shaped
<1>22. ASSUME UNCHANGED vars PROVE Honest'
  BY <1>22 DEF vars, Honest, Shaped
<1> QED
  BY <1>1, <1>2, <1>3, <1>4, <1>5, <1>6, <1>7, <1>8, <1>9, <1>10, <1>11,
     <1>12, <1>13, <1>14, <1>15, <1>16, <1>17, <1>18, <1>19, <1>20, <1>21, <1>22
     DEF Next, Requested, Proceeds, MailOne


-------------------------------------------------------------------------------
(* One approval, one mail.                                                 *)

(* The calls that may still mail p for b. *)
Owing(b, p) ==
    {c \in Calls : /\ calls[c].batch = b
                   /\ \/ calls[c].pc \in {"send", "sending", "snapshot"}
                      \/ calls[c].pc \in {"mail", "settle", "recover"} /\ p \in calls[c].todo}

(* Each of them was let in by an approval that has not been spent. *)
Ledger ==
    \A b \in Batches, p \in People :
        delivered[b][p] + Cardinality(Owing(b, p)) <= approvals[b]

LEMMA OwingFinite ==
    ASSUME NEW b \in Batches, NEW p \in People
    PROVE  /\ IsFiniteSet(Owing(b, p)) /\ Cardinality(Owing(b, p)) \in Nat
           /\ IsFiniteSet(Owing(b, p)') /\ Cardinality(Owing(b, p)') \in Nat
<1>1. Owing(b, p) \in SUBSET Calls /\ Owing(b, p)' \in SUBSET Calls
  BY DEF Owing
<1> QED
  BY <1>1, CampaignsAssumption, FS_Subset, FS_CardinalityType

(* Nobody new owes a mail, and nothing was sent. *)
LEMMA NoneNew ==
    ASSUME TypeOK, Ledger, approvals' = approvals, delivered' = delivered,
           \A b \in Batches, p \in People : Owing(b, p)' \subseteq Owing(b, p)
    PROVE  Ledger'
<1> SUFFICES ASSUME NEW b \in Batches, NEW p \in People
             PROVE  delivered[b][p] + Cardinality(Owing(b, p)') <= approvals[b]
  BY DEF Ledger
<1>1. Cardinality(Owing(b, p)') <= Cardinality(Owing(b, p))
  BY OwingFinite, FS_Subset
<1>2. delivered[b][p] + Cardinality(Owing(b, p)) <= approvals[b]
  BY DEF Ledger
<1>3. delivered[b][p] \in Nat /\ approvals[b] \in Nat
  OBVIOUS
<1> QED
  BY <1>1, <1>2, <1>3, OwingFinite

(* An approval lets one call in. *)
LEMMA OneLetIn ==
    ASSUME TypeOK, Ledger, NEW a \in Batches, NEW c \in Calls, delivered' = delivered,
           approvals' = [approvals EXCEPT ![a] = @ + 1],
           \A p \in People : Owing(a, p)' \subseteq Owing(a, p) \cup {c},
           \A b \in Batches, p \in People : b # a => Owing(b, p)' \subseteq Owing(b, p)
    PROVE  Ledger'
<1> SUFFICES ASSUME NEW b \in Batches, NEW p \in People
             PROVE  delivered[b][p] + Cardinality(Owing(b, p)') <= approvals'[b]
  BY DEF Ledger
<1>1. delivered[b][p] + Cardinality(Owing(b, p)) <= approvals[b]
  BY DEF Ledger
<1>2. delivered[b][p] \in Nat /\ approvals[b] \in Nat
  OBVIOUS
<1>3. CASE b = a
  <2>1. IsFiniteSet(Owing(b, p) \cup {c})
        /\ Cardinality(Owing(b, p) \cup {c}) <= Cardinality(Owing(b, p)) + 1
    <3>1. IsFiniteSet(Owing(b, p)) /\ Cardinality(Owing(b, p)) \in Nat
      BY OwingFinite
    <3>2. /\ IsFiniteSet(Owing(b, p) \cup {c})
          /\ Cardinality(Owing(b, p) \cup {c}) =
               IF c \in Owing(b, p) THEN Cardinality(Owing(b, p)) ELSE Cardinality(Owing(b, p)) + 1
      BY <3>1, FS_AddElement
    <3> QED
      BY <3>1, <3>2
  <2>2. Cardinality(Owing(b, p)') <= Cardinality(Owing(b, p) \cup {c})
    BY <1>3, <2>1, FS_Subset
  <2>3. Cardinality(Owing(b, p) \cup {c}) \in Nat
    BY <2>1, FS_CardinalityType
  <2>4. approvals'[b] = approvals[b] + 1
    BY <1>3
  <2> QED
    BY <1>1, <1>2, <2>1, <2>2, <2>3, <2>4, OwingFinite
<1>4. CASE b # a
  <2>1. Cardinality(Owing(b, p)') <= Cardinality(Owing(b, p))
    BY <1>4, OwingFinite, FS_Subset
  <2>2. approvals'[b] = approvals[b]
    BY <1>4
  <2> QED
    BY <1>1, <1>2, <2>1, <2>2, OwingFinite
<1> QED
  BY <1>3, <1>4

(* Sending one mail spends what the sender owed. *)
LEMMA OnePaid ==
    ASSUME TypeOK, Ledger, NEW a \in Batches, NEW q \in People, NEW c \in Calls,
           Leaves(a, q), approvals' = approvals,
           c \in Owing(a, q), c \notin Owing(a, q)',
           \A b \in Batches, p \in People : Owing(b, p)' \subseteq Owing(b, p)
    PROVE  Ledger'
<1> SUFFICES ASSUME NEW b \in Batches, NEW p \in People
             PROVE  delivered'[b][p] + Cardinality(Owing(b, p)') <= approvals[b]
  BY DEF Ledger
<1>1. delivered[b][p] + Cardinality(Owing(b, p)) <= approvals[b]
  BY DEF Ledger
<1>2. delivered[b][p] \in Nat /\ approvals[b] \in Nat
  OBVIOUS
<1>3. CASE b = a /\ p = q
  <2>1. IsFiniteSet(Owing(b, p) \ {c})
        /\ Cardinality(Owing(b, p) \ {c}) = Cardinality(Owing(b, p)) - 1
    BY <1>3, OwingFinite, FS_RemoveElement
  <2>2. Owing(b, p)' \in SUBSET (Owing(b, p) \ {c})
    BY <1>3
  <2>3. Cardinality(Owing(b, p)') <= Cardinality(Owing(b, p) \ {c})
    BY <2>1, <2>2, FS_Subset
  <2>4. delivered'[b][p] = delivered[b][p] + 1
    BY <1>3, LeavesEffect
  <2> QED
    BY <1>1, <1>2, <2>1, <2>3, <2>4, OwingFinite
<1>4. CASE b # a \/ p # q
  <2>1. Cardinality(Owing(b, p)') <= Cardinality(Owing(b, p))
    BY OwingFinite, FS_Subset
  <2>2. delivered'[b][p] = delivered[b][p]
    BY <1>4, LeavesEffect
  <2> QED
    BY <1>1, <1>2, <2>1, <2>2, OwingFinite
<1> QED
  BY <1>3, <1>4

LEMMA OwingShrinks ==
    ASSUME NEW c \in Calls, \A d \in Calls : d # c => calls'[d] = calls[d],
           \A b \in Batches, p \in People : c \in Owing(b, p)' => c \in Owing(b, p)
    PROVE  \A b \in Batches, p \in People : Owing(b, p)' \subseteq Owing(b, p)
BY DEF Owing

(* A call that is not sending, or is done, owes nothing. *)
LEMMA OwesNothing ==
    ASSUME NEW c \in Calls, \A d \in Calls : d # c => calls'[d] = calls[d],
           calls'[c].pc \notin Sending
    PROVE  \A b \in Batches, p \in People : Owing(b, p)' \subseteq Owing(b, p)
BY DEF Owing, Sending

LEMMA EndsOwesNothing ==
    ASSUME TypeOK, NEW c \in Calls, Ends(c)
    PROVE  \A b \in Batches, p \in People : Owing(b, p)' \subseteq Owing(b, p)
<1>1. calls'[c].pc \notin Sending /\ \A d \in Calls : d # c => calls'[d] = calls[d]
  BY DEF Ends, Idle, Sending
<1> QED
  BY <1>1, OwesNothing

(* A call that goes on sending for the same batch, with no more people. *)
LEMMA GoesOnSending ==
    ASSUME TypeOK, NEW c \in Calls, NEW r, calls' = [calls EXCEPT ![c] = r],
           r.batch = calls[c].batch, r.todo \subseteq calls[c].todo,
           calls[c].pc \in {"mail", "settle", "recover"},
           r.pc \in {"mail", "settle", "recover"}
    PROVE  \A b \in Batches, p \in People : Owing(b, p)' \subseteq Owing(b, p)
<1>1. calls'[c] = r /\ \A d \in Calls : d # c => calls'[d] = calls[d]
  OBVIOUS
<1>2. \A b \in Batches, p \in People : c \in Owing(b, p)' => c \in Owing(b, p)
  BY <1>1 DEF Owing
<1> QED
  BY <1>1, <1>2, OwingShrinks

(* The call that mails p owed p, and owes it no longer. *)
LEMMA PaysItsDebt ==
    ASSUME TypeOK, Ledger, NEW c \in Calls, NEW p \in People, NEW pc \in {"settle", "recover"},
           NEW outcome, calls[c].pc = "mail", p \in calls[c].todo, calls[c].batch \in Batches,
           SettlesAs(c, p, pc, outcome), approvals' = approvals,
           Leaves(calls[c].batch, p) \/ delivered' = delivered
    PROVE  Ledger'
<1> DEFINE r == [calls[c] EXCEPT !.pc = pc, !.person = p, !.outcome = outcome,
                                 !.todo = calls[c].todo \ {p}]
<1>1. calls' = [calls EXCEPT ![c] = r]
  BY DEF SettlesAs
<1>2. r.batch = calls[c].batch /\ r.todo = calls[c].todo \ {p} /\ r.pc = pc
  BY DEF Call
<1> HIDE DEF r
<1>3. \A b \in Batches, q \in People : Owing(b, q)' \subseteq Owing(b, q)
  BY <1>1, <1>2, GoesOnSending
<1>4. CASE delivered' = delivered
  BY <1>3, <1>4, NoneNew
<1>5. CASE Leaves(calls[c].batch, p)
  <2>1. PICK a \in Batches : a = calls[c].batch
    OBVIOUS
  <2>2. Leaves(a, p)
    BY <1>5, <2>1
  <2>3. c \in Owing(a, p)
    BY <2>1 DEF Owing
  <2>4. calls'[c] = r
    BY <1>1
  <2>5. c \notin Owing(a, p)'
    BY <2>4, <1>2 DEF Owing
  <2> QED
    BY <1>3, <2>2, <2>3, <2>5, OnePaid
<1> QED
  BY <1>4, <1>5

(* A call that approves a batch and sends it is the one let in. *)
LEMMA LetIn ==
    ASSUME TypeOK, Ledger, NEW c \in Calls, calls[c].batch \in Batches, Goes(c, "send"),
           calls[c].pc \notin Sending, delivered' = delivered,
           approvals' = [approvals EXCEPT ![calls[c].batch] = @ + 1]
    PROVE  Ledger'
<1>1. PICK a \in Batches : a = calls[c].batch
  OBVIOUS
<1>2. calls'[c].batch = a /\ \A d \in Calls : d # c => calls'[d] = calls[d]
  BY <1>1 DEF Goes, Call
<1>3. \A p \in People : Owing(a, p)' \subseteq Owing(a, p) \cup {c}
  BY <1>2 DEF Owing
<1>4. \A b \in Batches, p \in People : b # a => Owing(b, p)' \subseteq Owing(b, p)
  BY <1>2 DEF Owing
<1>5. approvals' = [approvals EXCEPT ![a] = @ + 1]
  BY <1>1
<1> QED
  BY <1>3, <1>4, <1>5, OneLetIn

LEMMA LedgerStep ==
    ASSUME TypeOK, Shaped, Ledger, [Next]_vars
    PROVE  Ledger'
<1>1. ASSUME NEW c \in Calls, NEW b \in Batches,
             BeginDrafting(c, b) \/ BeginApprove(c, b) \/ BeginDiscard(c, b)
      PROVE  Ledger'
  <2>1. calls'[c].pc \notin Sending /\ \A d \in Calls : d # c => calls'[d] = calls[d]
    <3>1. CASE BeginDrafting(c, b)
      <4>1. PICK source, auto, todo :
              Begins(c, [Idle EXCEPT !.pc = "drafting", !.batch = b, !.todo = todo, !.auto = auto])
        BY <3>1 DEF BeginDrafting
      <4>2. calls' = [calls EXCEPT ![c] = [Idle EXCEPT !.pc = "drafting", !.batch = b,
                                                       !.todo = todo, !.auto = auto]]
        BY <4>1 DEF Begins
      <4>3. calls'[c].pc = "drafting" /\ \A d \in Calls : d # c => calls'[d] = calls[d]
        BY <4>2 DEF Idle
      <4> QED
        BY <4>3 DEF Sending
    <3>2. CASE BeginApprove(c, b) \/ BeginDiscard(c, b)
      BY <3>2 DEF BeginApprove, BeginDiscard, Begins, Idle, Sending
    <3> QED
      BY <1>1, <3>1, <3>2
  <2> QED
    BY <1>1, <2>1, OwesNothing, NoneNew DEF BeginDrafting, BeginApprove, BeginDiscard
<1>2. ASSUME NEW c \in Calls, NEW b \in Batches, NEW p \in People,
             NEW change \in {"edit", "exclude"}, BeginDraftChange(c, b, p, change)
      PROVE  Ledger'
  <2>1. calls'[c].pc \notin Sending /\ \A d \in Calls : d # c => calls'[d] = calls[d]
    BY <1>2 DEF BeginDraftChange, Begins, Idle, Sending
  <2> QED
    BY <1>2, <2>1, OwesNothing, NoneNew DEF BeginDraftChange
<1>3. ASSUME NEW c \in Calls, NEW p \in People, DraftOne(c, p) PROVE Ledger'
  <2>1. calls'[c].pc \notin Sending /\ \A d \in Calls : d # c => calls'[d] = calls[d]
    BY <1>3 DEF DraftOne, Call, Sending
  <2> QED
    BY <1>3, <2>1, OwesNothing, NoneNew DEF DraftOne
<1>4. ASSUME NEW c \in Calls, FinishDrafting(c) PROVE Ledger'
  <2>1. calls[c].batch \in Batches /\ calls[c].pc \notin Sending /\ delivered' = delivered
    BY <1>4 DEF FinishDrafting, Shaped, Sending
  <2>2. CASE Ends(c) /\ approvals' = approvals
    BY <2>1, <2>2, EndsOwesNothing, NoneNew
  <2>3. CASE Goes(c, "send") /\ approvals' = [approvals EXCEPT ![calls[c].batch] = @ + 1]
    BY <2>1, <2>3, LetIn
  <2> QED
    BY <1>4, <2>2, <2>3, DraftingEnds
<1>5. ASSUME NEW c \in Calls, Approve(c) PROVE Ledger'
  <2>1. calls[c].batch \in Batches /\ calls[c].pc \notin Sending
    BY <1>5 DEF Approve, Shaped, Sending
  <2> QED
    BY <1>5, <2>1, LetIn DEF Approve
<1>6. ASSUME NEW c \in Calls, EditDraft(c) \/ ExcludeDraft(c) \/ Discard(c) \/ FinishSend(c)
      PROVE  Ledger'
  BY <1>6, EndsOwesNothing, NoneNew DEF EditDraft, ExcludeDraft, Discard, FinishSend
<1>7. ASSUME NEW c \in Calls, SendReads(c) \/ SendSaves(c) \/ SendSnapshots(c) PROVE Ledger'
  <2>1. /\ calls[c].pc \in {"send", "sending", "snapshot"}
        /\ calls'[c].batch = calls[c].batch
        /\ \A d \in Calls : d # c => calls'[d] = calls[d]
    <3>1. CASE SendReads(c)
      <4>1. PICK seen : calls' = [calls EXCEPT ![c] = [calls[c] EXCEPT !.pc = "sending", !.seen = seen]]
        BY <3>1 DEF SendReads
      <4>2. calls[c].pc = "send"
        BY <3>1 DEF SendReads
      <4> QED
        BY <4>1, <4>2 DEF TypeOK, Call
    <3>2. CASE SendSaves(c)
      <4>1. calls' = [calls EXCEPT ![c] = [calls[c] EXCEPT !.pc = "snapshot"]]
        BY <3>2 DEF SendSaves, Goes
      <4>2. calls[c].pc = "sending"
        BY <3>2 DEF SendSaves
      <4> QED
        BY <4>1, <4>2 DEF TypeOK, Call
    <3>3. CASE SendSnapshots(c)
      <4>1. PICK unsent : calls' = [calls EXCEPT ![c] = [calls[c] EXCEPT !.pc = "mail", !.todo = unsent]]
        BY <3>3 DEF SendSnapshots
      <4>2. calls[c].pc = "snapshot"
        BY <3>3 DEF SendSnapshots
      <4> QED
        BY <4>1, <4>2 DEF TypeOK, Call
    <3> QED
      BY <1>7, <3>1, <3>2, <3>3
  <2>2. \A b \in Batches, p \in People : c \in Owing(b, p)' => c \in Owing(b, p)
    BY <2>1 DEF Owing
  <2>3. \A b \in Batches, p \in People : Owing(b, p)' \subseteq Owing(b, p)
    BY <2>1, <2>2, OwingShrinks
  <2> QED
    BY <1>7, <2>3, NoneNew DEF SendReads, SendSaves, SendSnapshots
<1>8. ASSUME NEW c \in Calls, NEW p \in People, MailRefused(c, p) PROVE Ledger'
  <2>1. calls[c].batch \in Batches
    BY <1>8 DEF MailRefused, Shaped
  <2> QED
    BY <1>8, <2>1, PaysItsDebt DEF MailRefused
<1>9. ASSUME NEW c \in Calls, NEW p \in People, MailSent(c, p) PROVE Ledger'
  <2>1. calls[c].batch \in Batches
    BY <1>9 DEF MailSent, Shaped
  <2> QED
    BY <1>9, <2>1, PaysItsDebt DEF MailSent
<1>10. ASSUME NEW c \in Calls, NEW p \in People, MailThrows(c, p) PROVE Ledger'
  <2>1. calls[c].batch \in Batches
    BY <1>10 DEF MailThrows, Shaped
  <2> QED
    BY <1>10, <2>1, PaysItsDebt DEF MailThrows
<1>11. ASSUME NEW c \in Calls, Settle(c) PROVE Ledger'
  <2> DEFINE r == [calls[c] EXCEPT !.pc = "mail", !.person = Nobody, !.outcome = "none"]
  <2>1. calls' = [calls EXCEPT ![c] = r] /\ calls[c].pc \in {"settle", "recover"}
    BY <1>11 DEF Settle
  <2>2. r.batch = calls[c].batch /\ r.todo = calls[c].todo /\ r.pc = "mail"
    BY DEF Call
  <2> HIDE DEF r
  <2>3. \A b \in Batches, p \in People : Owing(b, p)' \subseteq Owing(b, p)
    BY <2>1, <2>2, GoesOnSending
  <2> QED
    BY <1>11, <2>3, NoneNew DEF Settle
<1>12. ASSUME NEW c \in Calls, SaveThrows(c) PROVE Ledger'
  <2>1. \A b \in Batches, p \in People : c \in Owing(b, p)' => c \in Owing(b, p)
    BY <1>12, ThrowEffect, NoBatchOutside DEF Owing
  <2> QED
    BY <1>12, <2>1, ThrowEffect, OwingShrinks, NoneNew
<1>13. ASSUME Crash PROVE Ledger'
  <2>1. \A c \in Calls : calls'[c].batch \notin Batches
    BY <1>13, NoBatchOutside DEF Crash, Idle
  <2>2. \A b \in Batches, p \in People : Owing(b, p)' \subseteq Owing(b, p)
    BY <2>1 DEF Owing
  <2> QED
    BY <1>13, <2>2, NoneNew DEF Crash
<1>14. ASSUME UNCHANGED <<calls, approvals, delivered>> PROVE Ledger'
  <2>1. \A b \in Batches, p \in People : Owing(b, p)' \subseteq Owing(b, p)
    BY <1>14 DEF Owing
  <2> QED
    BY <1>14, <2>1, NoneNew
<1>15. ASSUME NEW p \in People, LeavesAudience(p) \/ CapExpires(p) PROVE Ledger'
  BY <1>14, <1>15 DEF LeavesAudience, CapExpires
<1>16. ASSUME UNCHANGED vars PROVE Ledger'
  BY <1>14, <1>16 DEF vars
<1> QED
  BY <1>1, <1>2, <1>3, <1>4, <1>5, <1>6, <1>7, <1>8, <1>9, <1>10, <1>11, <1>12, <1>13,
     <1>15, <1>16 DEF Next, Requested, Proceeds, MailOne

-------------------------------------------------------------------------------
(* The inductive invariant, and what follows from it.                      *)

IInv == Shaped /\ Unborn /\ DraftingAlone /\ Honest /\ Ledger

LEMMA InitInv == Init => IInv
<1> SUFFICES ASSUME Init PROVE IInv
  OBVIOUS
<1>1. Shaped /\ Unborn /\ DraftingAlone
  BY NoBatchOutside DEF Init, Shaped, Unborn, DraftingAlone, Idle
<1>2. Honest
  BY DEF Init, Honest, Idle
<1>3. Ledger
  <2>1. \A b \in Batches, p \in People : Owing(b, p) = {}
    BY NoBatchOutside DEF Init, Owing, Idle
  <2>2. ASSUME NEW b \in Batches, NEW p \in People
        PROVE  delivered[b][p] + Cardinality(Owing(b, p)) <= approvals[b]
    <3>1. Cardinality(Owing(b, p)) = 0
      BY <2>1, FS_EmptySet
    <3>2. delivered[b][p] = 0 /\ approvals[b] = 0
      BY DEF Init
    <3> QED
      BY <3>1, <3>2
  <2> QED
    BY <2>2 DEF Ledger
<1> QED
  BY <1>1, <1>2, <1>3 DEF IInv

LEMMA InvStep == TypeOK /\ IInv /\ [Next]_vars => TypeOK' /\ IInv'
BY TypeStep, ShapedStep, UnbornStep, AloneStep, HonestStep, LedgerStep DEF IInv

(* What approval, sending and settlement leave behind is well typed, and   *)
(* the strengthened invariant holds of every reachable state.              *)
THEOREM Correct == Spec => [](TypeOK /\ IInv)
<1>1. Init => TypeOK /\ IInv
  BY InitType, InitInv
<1> QED
  BY <1>1, InvStep, PTL DEF Spec

(* email_batches and email_drafts hold only the statuses they declare.     *)
THEOREM TypeCorrect == Spec => []TypeOK
BY Correct, PTL

(* For any operators, batches, faults and crashes: one approval of a batch *)
(* mails one person at most once.                                          *)
THEOREM ApprovalMailsOnce == Spec => []OncePerApproval
<1>1. TypeOK /\ IInv => OncePerApproval
  <2> SUFFICES ASSUME TypeOK, IInv, NEW b \in Batches, NEW p \in People
               PROVE  delivered[b][p] <= approvals[b]
    BY DEF OncePerApproval
  <2>1. delivered[b][p] + Cardinality(Owing(b, p)) <= approvals[b]
    BY DEF IInv, Ledger
  <2>2. delivered[b][p] \in Nat /\ approvals[b] \in Nat
    OBVIOUS
  <2> QED
    BY <2>1, <2>2, OwingFinite
<1> QED
  BY <1>1, Correct, PTL

(* No mail leaves a batch that nobody approved or that is being drafted.   *)
THEOREM NothingUnapproved == Spec => []OnlyApprovalSends
<1>1. TypeOK /\ IInv => OnlyApprovalSends
  <2> SUFFICES ASSUME TypeOK, IInv, NEW b \in Batches, NEW p \in People, delivered[b][p] > 0
               PROVE  approvals[b] > 0 /\ ~Drafting(b)
    BY DEF OnlyApprovalSends
  <2>1. delivered[b][p] + Cardinality(Owing(b, p)) <= approvals[b]
    BY DEF IInv, Ledger
  <2>2. delivered[b][p] \in Nat /\ approvals[b] \in Nat
    OBVIOUS
  <2>3. approvals[b] > 0
    BY <2>1, <2>2, OwingFinite
  <2>4. Drafting(b) => approvals[b] = 0
    BY DEF IInv, DraftingAlone, Drafting
  <2> QED
    BY <2>2, <2>3, <2>4
<1> QED
  BY <1>1, Correct, PTL

(* A draft marked sent was handed to the provider.                         *)
THEOREM SentIsTrue == Spec => []SentWasDelivered
<1>1. TypeOK /\ IInv => SentWasDelivered
  BY DEF IInv, Honest, SentWasDelivered
<1> QED
  BY <1>1, Correct, PTL
===============================================================================
