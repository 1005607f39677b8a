---------------------------- MODULE SessionsProofs ----------------------------
(***************************************************************************)
(* Proofs about Sessions, for every number of sessions, links and calls.   *)
(*                                                                         *)
(* The argument rests on what a call remembers.  Documents only grow: a    *)
(* session never unhappens, keeps its parent and what it was born with,    *)
(* and a used link stays used (Grows).  So what a call learnt at its last  *)
(* read (Sound) still holds when it writes, and what it writes keeps every *)
(* session's record true (Kept).                                           *)
(***************************************************************************)
EXTENDS Sessions, TLAPS

-------------------------------------------------------------------------------
(* Shapes.                                                                 *)

Replay == \E s \in Sessions : sessions[s].shown >= 2 /\ sessions[s].heir # None

(* What a call that remembers the record k may rely on. *)
Sound(k) ==
    /\ k.began <= purges /\ k.seen <= failed
    /\ k.pc \in {"user", "rotate", "logout"} => k.session # None
    /\ k.session # None => sessions[k.session].state # "none"
    /\ k.session # None /\ k.pc # "logout" => /\ sessions[k.session].shown >= 1
                                              /\ k.began <= sessions[k.session].born
    /\ k.pc = "rotate" => /\ k.minted # None
                          /\ sessions[k.minted].state # "none"
                          /\ sessions[k.minted].parent = k.session
    /\ k.pc \in {"owner", "burn"} => k.link # None
    /\ k.pc = "set" /\ k.link # None => links[k.link] = "used"
    /\ k.pc = "purge" => k.next \in Reason \ {"logout", "rotated"}
    /\ k.pc = "purge" /\ k.next = "reuse_detected" => Replay
    /\ k.pc = "status" => k.next \in {"allowed", "banned", "deleted"}

AllSound == \A c \in Calls : Sound(calls[c])

LEMMA NoneIsNone == None \notin Sessions /\ None \notin Links
BY DEF None, Sessions, Links

LEMMA IdleIsSound == TypeOK => Idle \in Call /\ Sound(Idle)
<1>1. Idle \in Call
  BY DEF Idle, Call, Step, Status
<1>2. TypeOK => Sound(Idle)
  BY DEF Idle, Sound, TypeOK, None
<1> QED
  BY <1>1, <1>2

LEMMA BeginsType ==
    ASSUME TypeOK, NEW c \in Calls, NEW call \in Call, Begins(c, call)
    PROVE  /\ calls' \in [Calls -> Call]
           /\ begun' \in 0..MaxCalls /\ faults' \in 0..MaxFaults
<1>1. [call EXCEPT !.began = purges] \in Call
  BY DEF TypeOK, Call
<1>2. calls' = [calls EXCEPT ![c] = [call EXCEPT !.began = purges]]
  BY DEF Begins
<1>3. begun' \in 0..MaxCalls
  BY SessionsAssumption DEF TypeOK, Begins
<1> QED
  BY <1>1, <1>2, <1>3 DEF TypeOK, Begins

LEMMA GoesType ==
    ASSUME TypeOK, NEW c \in Calls, NEW pc \in Step, Goes(c, pc)
    PROVE  calls' \in [Calls -> Call]
BY DEF TypeOK, Goes, Call

LEMMA WritesType ==
    ASSUME TypeOK, NEW c \in Calls, NEW next \in Status \cup Reason,
           calls' = [calls EXCEPT ![c].pc = "purge", ![c].next = next]
    PROVE  calls' \in [Calls -> Call]
<1>1. "purge" \in Step
  BY DEF Step
<1> QED
  BY <1>1 DEF TypeOK, Call

LEMMA EndsType ==
    ASSUME TypeOK, NEW c \in Calls, Ends(c)
    PROVE  calls' \in [Calls -> Call]
BY IdleIsSound DEF TypeOK, Ends

LEMMA RevokeType ==
    ASSUME TypeOK, NEW s \in Sessions, NEW heir \in Sessions \cup {None}, NEW reason \in Reason,
           RevokeSession(s, heir, reason)
    PROVE  sessions' \in [Sessions -> Session]
<1> DEFINE ended == [sessions[s] EXCEPT !.state = "revoked", !.reason = reason, !.heir = heir]
<1>1. ended \in Session
  BY DEF TypeOK, Session
<1>2. sessions' = sessions \/ sessions' = [sessions EXCEPT ![s] = ended]
  BY DEF RevokeSession, TypeOK
<1> QED
  BY <1>1, <1>2 DEF TypeOK

LEMMA RevokeAllType ==
    ASSUME TypeOK, NEW reason \in Reason, RevokeAll(reason)
    PROVE  /\ sessions' \in [Sessions -> Session]
           /\ purges' = purges + 1 /\ purges' \in Nat /\ barredAt' \in 0..purges'
<1>1. sessions' \in [Sessions -> Session]
  BY DEF TypeOK, RevokeAll, Session
<1>2. purges \in Nat /\ barredAt \in 0..purges
  BY DEF TypeOK
<1>3. purges' = purges + 1 /\ barredAt' \in {barredAt, purges + 1}
  BY DEF RevokeAll
<1> QED
  BY <1>1, <1>2, <1>3

-------------------------------------------------------------------------------
(* Every step keeps the shapes.                                            *)

LEMMA TypeSignsIn ==
    ASSUME TypeOK, AllSound, NEW c \in Calls, SignsIn(c)
    PROVE  TypeOK'
<1> USE SessionsAssumption DEF history, spent
<1>1. CASE BeginRegister(c)
  <2>1. [Idle EXCEPT !.pc = "register"] \in Call
    BY IdleIsSound DEF Call, Step
  <2> QED
    BY <1>1, <2>1, BeginsType DEF BeginRegister, TypeOK
<1>2. CASE Register(c)
  <2>1. calls' \in [Calls -> Call]
    <3>1. "mint" \in Step
      BY DEF Step
    <3> QED
      BY <1>2, <3>1, GoesType, EndsType DEF Register
  <2>2. user' \in User
    BY <1>2 DEF Register, TypeOK, User, Status
  <2> QED
    BY <1>2, <2>1, <2>2 DEF Register, TypeOK
<1>3. CASE BeginLogin(c)
  <2>1. PICK k \in {[Idle EXCEPT !.pc = "failure", !.seen = user.failures],
                    [Idle EXCEPT !.pc = "success"]} : Begins(c, k)
    BY <1>3 DEF BeginLogin
  <2>2. user.failures \in Nat
    BY DEF TypeOK, User
  <2>3. k \in Call
    BY <2>2, IdleIsSound DEF Call, Step
  <2> QED
    BY <1>3, <2>1, <2>3, BeginsType DEF BeginLogin, TypeOK
<1>4. CASE RecordFailedLogin(c)
  <2>1. calls' \in [Calls -> Call]
    BY <1>4, EndsType DEF RecordFailedLogin
  <2>2. user' \in User /\ failed' \in Nat
    <3>1. user.failures \in Nat /\ user.locked \in BOOLEAN /\ Locks(calls[c].seen) \in BOOLEAN
      BY DEF TypeOK, User, Locks
    <3>2. CASE ~Exists
      BY <1>4, <3>2 DEF RecordFailedLogin, TypeOK
    <3>3. CASE Exists
      <4>1. PICK locked \in BOOLEAN :
              user' = [user EXCEPT !.failures = user.failures + 1, !.locked = locked]
        <5> DEFINE locked == user.locked \/ Locks(calls[c].seen)
        <5>1. locked \in BOOLEAN
          OBVIOUS
        <5>2. user' = [user EXCEPT !.failures = user.failures + 1, !.locked = locked]
          BY <1>4, <3>3 DEF RecordFailedLogin, TypeOK, User
        <5> HIDE DEF locked
        <5> QED
          BY <5>1, <5>2
      <4>2. failed' = failed + 1
        BY <1>4, <3>3 DEF RecordFailedLogin
      <4>3. user.failures + 1 \in Nat /\ failed' \in Nat
        BY <3>1, <4>2 DEF TypeOK
      <4>4. [user EXCEPT !.failures = user.failures + 1, !.locked = locked] \in User
        BY <4>3 DEF TypeOK, User
      <4> QED
        BY <4>1, <4>3, <4>4
    <3> QED
      BY <3>2, <3>3
  <2> QED
    BY <1>4, <2>1, <2>2 DEF RecordFailedLogin, TypeOK
<1>5. CASE RecordSuccessfulLogin(c)
  <2>1. calls' \in [Calls -> Call]
    <3>1. "mint" \in Step
      BY DEF Step
    <3> QED
      BY <1>5, <3>1, GoesType DEF RecordSuccessfulLogin
  <2>2. user' \in User
    BY <1>5 DEF RecordSuccessfulLogin, TypeOK, User
  <2> QED
    BY <1>5, <2>1, <2>2 DEF RecordSuccessfulLogin, TypeOK
<1> QED
  BY <1>1, <1>2, <1>3, <1>4, <1>5 DEF SignsIn

LEMMA TypeRotates ==
    ASSUME TypeOK, AllSound, NEW c \in Calls, Rotates(c)
    PROVE  TypeOK'
<1> USE SessionsAssumption DEF history, spent
<1>1. ASSUME NEW s \in Sessions, BeginRefresh(c, s) PROVE TypeOK'
  <2>1. PICK k \in {[Idle EXCEPT !.pc = "purge", !.next = "reuse_detected"],
                    [Idle EXCEPT !.pc = "user", !.session = s]} : Begins(c, k)
    BY <1>1 DEF BeginRefresh
  <2>2. k \in Call
    BY IdleIsSound DEF Call, Step, Status, Reason
  <2>3. sessions' \in [Sessions -> Session]
    BY <1>1 DEF BeginRefresh, TypeOK, Session
  <2> QED
    BY <1>1, <2>1, <2>2, <2>3, BeginsType DEF BeginRefresh, TypeOK
<1>2. ASSUME NEW s \in Sessions, BeginLogout(c, s) PROVE TypeOK'
  <2>1. [Idle EXCEPT !.pc = "logout", !.session = s] \in Call
    BY IdleIsSound DEF Call, Step
  <2> QED
    BY <1>2, <2>1, BeginsType DEF BeginLogout, TypeOK
<1>3. CASE RefreshReadsUser(c)
  <2>1. calls' \in [Calls -> Call]
    <3>1. "mint" \in Step /\ "status_change" \in Status \cup Reason
      BY DEF Step, Reason
    <3> QED
      BY <1>3, <3>1, GoesType, EndsType, WritesType DEF RefreshReadsUser
  <2> QED
    BY <1>3, <2>1 DEF RefreshReadsUser, TypeOK
<1>4. CASE Rotate(c)
  <2>1. calls[c].session \in Sessions /\ calls[c].minted \in Sessions
    BY <1>4 DEF Rotate, AllSound, Sound, TypeOK, Call
  <2>2. sessions' \in [Sessions -> Session]
    <3>1. "rotated" \in Reason
      BY DEF Reason
    <3> QED
      BY <1>4, <2>1, <3>1, RevokeType DEF Rotate
  <2> QED
    BY <1>4, <2>2, EndsType DEF Rotate, TypeOK
<1>5. CASE Logout(c)
  <2>1. calls[c].session \in Sessions
    BY <1>5 DEF Logout, AllSound, Sound, TypeOK, Call
  <2>2. sessions' \in [Sessions -> Session]
    <3>1. "logout" \in Reason
      BY DEF Reason
    <3> QED
      BY <1>5, <2>1, <3>1, RevokeType DEF Logout
  <2> QED
    BY <1>5, <2>2, EndsType DEF Logout, TypeOK
<1> QED
  BY <1>1, <1>2, <1>3, <1>4, <1>5 DEF Rotates

LEMMA TypeSetsPassword ==
    ASSUME TypeOK, AllSound, NEW c \in Calls, SetsPassword(c)
    PROVE  TypeOK'
<1> USE SessionsAssumption DEF history, spent
<1>1. CASE BeginChangePassword(c) \/ BeginForgot(c)
  <2>1. PICK k \in {[Idle EXCEPT !.pc = "set"], [Idle EXCEPT !.pc = "spend"]} : Begins(c, k)
    BY <1>1 DEF BeginChangePassword, BeginForgot
  <2>2. k \in Call
    BY IdleIsSound DEF Call, Step
  <2> QED
    BY <1>1, <2>1, <2>2, BeginsType DEF BeginChangePassword, BeginForgot, TypeOK
<1>2. CASE SpendLinks(c)
  <2>1. calls' \in [Calls -> Call]
    <3>1. "link" \in Step
      BY DEF Step
    <3> QED
      BY <1>2, <3>1, GoesType DEF SpendLinks
  <2>2. links' \in [Links -> Link]
    BY <1>2 DEF SpendLinks, TypeOK, Link
  <2> QED
    BY <1>2, <2>1, <2>2 DEF SpendLinks, TypeOK
<1>3. ASSUME NEW l \in Links, CreateLink(c, l) PROVE TypeOK'
  <2>1. links' \in [Links -> Link]
    BY <1>3 DEF CreateLink, TypeOK, Link
  <2> QED
    BY <1>3, <2>1, EndsType DEF CreateLink, TypeOK
<1>4. ASSUME NEW l \in Links, BeginReset(c, l) PROVE TypeOK'
  <2>1. [Idle EXCEPT !.pc = "owner", !.link = l] \in Call
    BY IdleIsSound DEF Call, Step
  <2> QED
    BY <1>4, <2>1, BeginsType DEF BeginReset, TypeOK
<1>5. CASE ResetReadsUser(c)
  <2>1. "burn" \in Step
    BY DEF Step
  <2> QED
    BY <1>5, <2>1, GoesType, EndsType DEF ResetReadsUser, TypeOK
<1>6. CASE BurnLink(c)
  <2>1. calls' \in [Calls -> Call]
    <3>1. "set" \in Step
      BY DEF Step
    <3> QED
      BY <1>6, <3>1, GoesType DEF BurnLink
  <2>2. links' \in [Links -> Link]
    BY <1>6 DEF BurnLink, TypeOK, Link
  <2> QED
    BY <1>6, <2>1, <2>2 DEF BurnLink, TypeOK
<1>7. CASE SetPasswordHash(c)
  <2>1. calls' \in [Calls -> Call]
    <3>1. "password_change" \in Status \cup Reason
      BY DEF Reason
    <3> QED
      BY <1>7, <3>1, WritesType DEF SetPasswordHash
  <2>2. resets' \in [Links -> Nat]
    <3>1. resets' = resets \/ resets' = [resets EXCEPT ![calls[c].link] = @ + 1]
      BY <1>7 DEF SetPasswordHash
    <3>2. calls[c].link \in Links \cup {None}
      BY DEF TypeOK, Call
    <3> QED
      BY <3>1, <3>2, NoneIsNone DEF TypeOK
  <2> QED
    BY <1>7, <2>1, <2>2 DEF SetPasswordHash, TypeOK
<1> QED
  BY <1>1, <1>2, <1>3, <1>4, <1>5, <1>6, <1>7 DEF SetsPassword

LEMMA TypeModerates ==
    ASSUME TypeOK, AllSound, NEW c \in Calls, Moderates(c)
    PROVE  TypeOK'
<1> USE SessionsAssumption DEF history, spent
<1>1. ASSUME NEW next \in Status, BeginStatus(c, next) PROVE TypeOK'
  <2>1. [Idle EXCEPT !.pc = "status", !.next = next] \in Call
    BY IdleIsSound DEF Call, Step
  <2> QED
    BY <1>1, <2>1, BeginsType DEF BeginStatus, TypeOK
<1>2. CASE WriteStatus(c)
  <2>1. calls[c].next \in Status
    BY <1>2 DEF WriteStatus, AllSound, Sound, Status
  <2>2. calls' \in [Calls -> Call]
    <3>1. "status_change" \in Status \cup Reason
      BY DEF Reason
    <3> QED
      BY <1>2, <3>1, EndsType, WritesType DEF WriteStatus
  <2>3. user' \in User
    BY <1>2, <2>1 DEF WriteStatus, TypeOK, User
  <2>4. barredAt' \in 0..purges
    BY <1>2 DEF WriteStatus, TypeOK
  <2> QED
    BY <1>2, <2>2, <2>3, <2>4 DEF WriteStatus, TypeOK
<1>3. CASE BeginDelete(c)
  <2>1. [Idle EXCEPT !.pc = "erase"] \in Call /\ "status_change" \in Reason
    BY IdleIsSound DEF Call, Step, Reason
  <2> QED
    BY <1>3, <2>1, BeginsType, RevokeAllType DEF BeginDelete, TypeOK
<1>4. CASE EraseUser(c)
  <2>1. user' \in User
    BY <1>4 DEF EraseUser, TypeOK, User, Status
  <2> QED
    BY <1>4, <2>1, EndsType DEF EraseUser, TypeOK
<1> QED
  BY <1>1, <1>2, <1>3, <1>4 DEF Moderates

LEMMA TypeOthers ==
    ASSUME TypeOK, AllSound,
           \/ Time
           \/ \E c \in Calls : Purge(c) \/ Dies(c) \/ \E s \in Sessions : Mint(c, s)
    PROVE  TypeOK'
<1> USE SessionsAssumption DEF history, spent
<1>1. CASE Time
  <2>1. CASE LockExpires
    BY <2>1 DEF LockExpires, TypeOK, User
  <2>2. ASSUME NEW s \in Sessions, SessionExpires(s) \/ SessionSwept(s) PROVE TypeOK'
    <3>1. [sessions[s] EXCEPT !.expired = TRUE] \in Session
      BY DEF TypeOK, Session
    <3>2. [sessions[s] EXCEPT !.state = "swept"] \in Session
      BY DEF TypeOK, Session
    <3>3. \/ sessions' = [sessions EXCEPT ![s] = [sessions[s] EXCEPT !.expired = TRUE]]
          \/ sessions' = [sessions EXCEPT ![s] = [sessions[s] EXCEPT !.state = "swept"]]
      BY <2>2 DEF SessionExpires, SessionSwept, TypeOK
    <3>4. sessions' \in [Sessions -> Session]
      BY <3>1, <3>2, <3>3 DEF TypeOK
    <3> QED
      BY <2>2, <3>4 DEF SessionExpires, SessionSwept, TypeOK
  <2>3. ASSUME NEW l \in Links, LinkExpires(l) PROVE TypeOK'
    BY <2>3 DEF LinkExpires, TypeOK, Link
  <2> QED
    BY <1>1, <2>1, <2>2, <2>3 DEF Time
<1>2. ASSUME NEW c \in Calls, Purge(c) PROVE TypeOK'
  <2>1. calls[c].next \in Reason
    BY <1>2 DEF Purge, AllSound, Sound
  <2> QED
    BY <1>2, <2>1, RevokeAllType, EndsType DEF Purge, TypeOK
<1>3. ASSUME NEW c \in Calls, Dies(c) PROVE TypeOK'
  BY <1>3, EndsType DEF Dies, TypeOK
<1>4. ASSUME NEW c \in Calls, NEW s \in Sessions, Mint(c, s) PROVE TypeOK'
  <2>1. calls[c].session \in Sessions \cup {None} /\ calls[c].began \in Nat
    BY DEF TypeOK, Call
  <2>2. sessions' \in [Sessions -> Session]
    <3>1. [NoSession EXCEPT !.state = "live", !.parent = calls[c].session,
                            !.began = calls[c].began, !.born = purges] \in Session
      BY <2>1 DEF NoSession, Session, TypeOK
    <3> QED
      BY <1>4, <3>1 DEF Mint, TypeOK
  <2>3. calls' \in [Calls -> Call]
    <3>1. [calls[c] EXCEPT !.pc = "rotate", !.minted = s] \in Call
      BY DEF TypeOK, Call, Step
    <3> QED
      BY <1>4, <3>1, IdleIsSound DEF Mint, TypeOK
  <2> QED
    BY <1>4, <2>2, <2>3 DEF Mint, TypeOK
<1> QED
  BY <1>1, <1>2, <1>3, <1>4

LEMMA TypeStep ==
    ASSUME TypeOK, AllSound, [Next]_vars
    PROVE  TypeOK'
<1>1. CASE UNCHANGED vars
  BY <1>1 DEF vars, history, spent, TypeOK
<1> QED
  BY <1>1, TypeSignsIn, TypeRotates, TypeSetsPassword, TypeModerates, TypeOthers DEF Next

-------------------------------------------------------------------------------
(* What a step does to the documents.                                      *)

(* What is true of every session's record. *)
Kept(s) ==
    /\ sessions[s].state = "none" => sessions[s] = NoSession
    /\ sessions[s].state = "live" => /\ sessions[s].reason = "null"
                                     /\ sessions[s].heir = None
                                     /\ sessions[s].born = purges
    /\ sessions[s].reason = "rotated" <=> sessions[s].heir # None
    /\ sessions[s].heir # None => /\ sessions[s].shown >= 1
                                  /\ sessions[sessions[s].heir].state # "none"
                                  /\ sessions[sessions[s].heir].parent = s
    /\ sessions[s].parent # None => /\ sessions[sessions[s].parent].state # "none"
                                    /\ sessions[s].began <= sessions[sessions[s].parent].born
    /\ sessions[s].reason = "reuse_detected" => Replay

AllKept == \A s \in Sessions : Kept(s)

(* A refresh finds a token, or time passes over its session. *)
Marks(s) ==
    /\ sessions[s].state # "none"
    /\ \/ sessions' = [sessions EXCEPT ![s] = [sessions[s] EXCEPT !.shown = sessions[s].shown + 1]]
       \/ sessions' = [sessions EXCEPT ![s] = [sessions[s] EXCEPT !.expired = TRUE]]
       \/ sessions' = [sessions EXCEPT ![s] = [sessions[s] EXCEPT !.state = "swept"]]

(* One live session ends, by itself. *)
EndsOne(s, heir, reason) ==
    /\ sessions[s].state = "live"
    /\ sessions' = [sessions EXCEPT ![s] =
                      [sessions[s] EXCEPT !.state = "revoked", !.reason = reason, !.heir = heir]]
    /\ \/ reason = "logout" /\ heir = None
       \/ /\ reason = "rotated" /\ heir \in Sessions
          /\ sessions[s].shown >= 1
          /\ sessions[heir].state # "none" /\ sessions[heir].parent = s

(* Every live session ends. *)
EndsAll(reason) ==
    /\ RevokeAll(reason)
    /\ reason = "reuse_detected" => Replay

LEMMA RevokeEffect ==
    ASSUME TypeOK, NEW s \in Sessions, NEW heir, NEW reason, RevokeSession(s, heir, reason)
    PROVE  \/ sessions' = sessions
           \/ /\ sessions[s].state = "live"
              /\ sessions' = [sessions EXCEPT ![s] =
                    [sessions[s] EXCEPT !.state = "revoked", !.reason = reason, !.heir = heir]]
BY DEF TypeOK, RevokeSession, Session

LEMMA SessionsEffect ==
    ASSUME TypeOK, AllSound, [Next]_vars
    PROVE  \/ sessions' = sessions /\ purges' = purges
           \/ \E s \in Sessions : Marks(s) /\ purges' = purges
           \/ \E s \in Sessions, heir \in Sessions \cup {None}, reason \in Reason :
                 EndsOne(s, heir, reason) /\ purges' = purges
           \/ \E reason \in Reason \ {"logout", "rotated"} : EndsAll(reason)
           \/ \E c \in Calls, s \in Sessions : Mint(c, s)
<1> USE DEF history, spent
<1>1. CASE UNCHANGED vars
  BY <1>1 DEF vars
<1>2. ASSUME NEW c \in Calls, SignsIn(c) PROVE sessions' = sessions /\ purges' = purges
  BY <1>2 DEF SignsIn, BeginRegister, Register, BeginLogin, RecordFailedLogin,
              RecordSuccessfulLogin
<1>3. ASSUME NEW c \in Calls, SetsPassword(c) PROVE sessions' = sessions /\ purges' = purges
  BY <1>3 DEF SetsPassword, BeginChangePassword, BeginForgot, SpendLinks, CreateLink, BeginReset,
              ResetReadsUser, BurnLink, SetPasswordHash
<1>4. ASSUME NEW c \in Calls, NEW s \in Sessions, BeginRefresh(c, s)
      PROVE  Marks(s) /\ purges' = purges
  BY <1>4 DEF BeginRefresh, Replayed, Marks, TypeOK
<1>5. ASSUME NEW s \in Sessions, SessionExpires(s) \/ SessionSwept(s)
      PROVE  Marks(s) /\ purges' = purges
  BY <1>5 DEF SessionExpires, SessionSwept, Marks, TypeOK
<1>6. ASSUME NEW c \in Calls, Rotate(c)
      PROVE  \/ sessions' = sessions /\ purges' = purges
             \/ \E s \in Sessions, heir \in Sessions \cup {None}, reason \in Reason :
                   EndsOne(s, heir, reason) /\ purges' = purges
  <2>1. /\ calls[c].session \in Sessions /\ calls[c].minted \in Sessions
        /\ sessions[calls[c].session].shown >= 1
        /\ sessions[calls[c].minted].state # "none"
        /\ sessions[calls[c].minted].parent = calls[c].session
    BY <1>6 DEF Rotate, AllSound, Sound, TypeOK, Call
  <2>2. purges' = purges /\ RevokeSession(calls[c].session, calls[c].minted, "rotated")
    BY <1>6 DEF Rotate
  <2>3. sessions' = sessions \/ EndsOne(calls[c].session, calls[c].minted, "rotated")
    BY <2>1, <2>2, RevokeEffect DEF EndsOne
  <2>4. "rotated" \in Reason
    BY DEF Reason
  <2> QED
    BY <2>1, <2>2, <2>3, <2>4
<1>7. ASSUME NEW c \in Calls, Logout(c)
      PROVE  \/ sessions' = sessions /\ purges' = purges
             \/ \E s \in Sessions, heir \in Sessions \cup {None}, reason \in Reason :
                   EndsOne(s, heir, reason) /\ purges' = purges
  <2>1. calls[c].session \in Sessions
    BY <1>7 DEF Logout, AllSound, Sound, TypeOK, Call
  <2>2. purges' = purges /\ RevokeSession(calls[c].session, None, "logout")
    BY <1>7 DEF Logout
  <2>3. sessions' = sessions \/ EndsOne(calls[c].session, None, "logout")
    BY <2>1, <2>2, RevokeEffect DEF EndsOne
  <2>4. "logout" \in Reason
    BY DEF Reason
  <2> QED
    BY <2>1, <2>2, <2>3, <2>4
<1>8. ASSUME NEW c \in Calls, (\E s \in Sessions : BeginLogout(c, s)) \/ RefreshReadsUser(c)
      PROVE  sessions' = sessions /\ purges' = purges
  BY <1>8 DEF BeginLogout, RefreshReadsUser
<1>9. ASSUME NEW c \in Calls, Purge(c)
      PROVE  \E reason \in Reason \ {"logout", "rotated"} : EndsAll(reason)
  BY <1>9 DEF Purge, AllSound, Sound, EndsAll
<1>10. ASSUME NEW c \in Calls, BeginDelete(c)
       PROVE  \E reason \in Reason \ {"logout", "rotated"} : EndsAll(reason)
  BY <1>10 DEF BeginDelete, EndsAll, Reason
<1>11. ASSUME NEW c \in Calls,
              (\E next \in Status : BeginStatus(c, next)) \/ WriteStatus(c) \/ EraseUser(c) \/ Dies(c)
       PROVE  sessions' = sessions /\ purges' = purges
  BY <1>11 DEF BeginStatus, WriteStatus, EraseUser, Dies
<1>12. ASSUME LockExpires \/ \E l \in Links : LinkExpires(l)
       PROVE  sessions' = sessions /\ purges' = purges
  BY <1>12 DEF LockExpires, LinkExpires
<1> QED
  BY <1>1, <1>2, <1>3, <1>4, <1>5, <1>6, <1>7, <1>8, <1>9, <1>10, <1>11, <1>12
  DEF Next, Rotates, Moderates, Time

-------------------------------------------------------------------------------
(* Documents only grow.                                                    *)

SessionsGrow ==
    \A s \in Sessions :
        sessions[s].state # "none" =>
            /\ sessions'[s].state # "none"
            /\ sessions'[s].parent = sessions[s].parent
            /\ sessions'[s].began = sessions[s].began
            /\ sessions'[s].born = sessions[s].born
            /\ sessions'[s].shown >= sessions[s].shown
            /\ sessions[s].heir # None => sessions'[s].heir = sessions[s].heir

Grows ==
    /\ SessionsGrow
    /\ \A l \in Links : links[l] = "used" => links'[l] = "used"
    /\ purges' >= purges /\ failed' >= failed

LEMMA SessionsGrowStep ==
    ASSUME TypeOK, AllSound, AllKept, [Next]_vars
    PROVE  SessionsGrow /\ purges' >= purges
<1>0. purges \in Nat /\ \A s \in Sessions : sessions[s] \in Session
  BY DEF TypeOK
<1>1. CASE sessions' = sessions /\ purges' = purges
  BY <1>0, <1>1 DEF SessionsGrow, Session
<1>2. ASSUME NEW s \in Sessions, Marks(s), purges' = purges
      PROVE  SessionsGrow /\ purges' >= purges
  BY <1>0, <1>2 DEF Marks, SessionsGrow, Session, TypeOK
<1>3. ASSUME NEW s \in Sessions, NEW heir \in Sessions \cup {None}, NEW reason \in Reason,
             EndsOne(s, heir, reason), purges' = purges
      PROVE  SessionsGrow /\ purges' >= purges
  <2>1. sessions[s].heir = None
    BY <1>3 DEF EndsOne, AllKept, Kept
  <2>2. sessions' = [sessions EXCEPT ![s] =
           [sessions[s] EXCEPT !.state = "revoked", !.reason = reason, !.heir = heir]]
    BY <1>3 DEF EndsOne
  <2>3. /\ sessions'[s].state = "revoked" /\ sessions'[s].parent = sessions[s].parent
        /\ sessions'[s].began = sessions[s].began /\ sessions'[s].born = sessions[s].born
        /\ sessions'[s].shown = sessions[s].shown
    BY <1>0, <2>2 DEF Session, TypeOK
  <2>4. \A r \in Sessions : r # s => sessions'[r] = sessions[r]
    BY <2>2 DEF TypeOK
  <2>5. \A r \in Sessions : sessions[r].shown \in Nat
    BY <1>0 DEF Session
  <2>6. SessionsGrow
    <3>1. SUFFICES ASSUME NEW r \in Sessions, sessions[r].state # "none"
                   PROVE  /\ sessions'[r].state # "none"
                          /\ sessions'[r].parent = sessions[r].parent
                          /\ sessions'[r].began = sessions[r].began
                          /\ sessions'[r].born = sessions[r].born
                          /\ sessions'[r].shown >= sessions[r].shown
                          /\ sessions[r].heir # None => sessions'[r].heir = sessions[r].heir
      BY DEF SessionsGrow
    <3>2. CASE r = s
      BY <2>1, <2>3, <2>5, <3>2
    <3>3. CASE r # s
      BY <2>4, <2>5, <3>1, <3>3
    <3> QED
      BY <3>2, <3>3
  <2> QED
    BY <1>0, <1>3, <2>6
<1>4. ASSUME NEW reason \in Reason, EndsAll(reason)
      PROVE  SessionsGrow /\ purges' >= purges
  <2>1. \A s \in Sessions :
           \/ sessions'[s] = sessions[s]
           \/ sessions'[s] = [sessions[s] EXCEPT !.state = "revoked", !.reason = reason]
    BY <1>4 DEF EndsAll, RevokeAll
  <2>2. purges' = purges + 1
    BY <1>4 DEF EndsAll, RevokeAll
  <2>3. SessionsGrow
    <3>1. SUFFICES ASSUME NEW s \in Sessions, sessions[s].state # "none"
                   PROVE  /\ sessions'[s].state # "none"
                          /\ sessions'[s].parent = sessions[s].parent
                          /\ sessions'[s].began = sessions[s].began
                          /\ sessions'[s].born = sessions[s].born
                          /\ sessions'[s].shown >= sessions[s].shown
                          /\ sessions[s].heir # None => sessions'[s].heir = sessions[s].heir
      BY DEF SessionsGrow
    <3>2. sessions[s] \in Session
      BY <1>0
    <3>3. CASE sessions'[s] = sessions[s]
      BY <3>1, <3>2, <3>3 DEF Session
    <3>4. CASE sessions'[s] = [sessions[s] EXCEPT !.state = "revoked", !.reason = reason]
      BY <3>2, <3>4 DEF Session
    <3> QED
      BY <2>1, <3>3, <3>4
  <2> QED
    BY <1>0, <2>2, <2>3
<1>5. ASSUME NEW c \in Calls, NEW s \in Sessions, Mint(c, s)
      PROVE  SessionsGrow /\ purges' >= purges
  <2>1. \A r \in Sessions : sessions[r].state # "none" => sessions'[r] = sessions[r]
    BY <1>5 DEF Mint, Fresh, TypeOK
  <2>2. purges' = purges
    BY <1>5 DEF Mint, history
  <2> QED
    BY <1>0, <2>1, <2>2 DEF SessionsGrow, Session
<1> QED
  BY <1>1, <1>2, <1>3, <1>4, <1>5, SessionsEffect

LEMMA GrowsStep ==
    ASSUME TypeOK, AllSound, AllKept, [Next]_vars
    PROVE  Grows
<1> USE DEF history, spent
<1>1. \A l \in Links : links[l] = "used" => links'[l] = "used"
  <2>1. links' = links \/ (\E c \in Calls : SpendLinks(c) \/ BurnLink(c))
        \/ (\E c \in Calls, l \in Links : CreateLink(c, l)) \/ (\E l \in Links : LinkExpires(l))
    <3>1. ASSUME NEW c \in Calls, SignsIn(c) PROVE links' = links
      BY <3>1 DEF SignsIn, BeginRegister, Register, BeginLogin, RecordFailedLogin,
                  RecordSuccessfulLogin
    <3>2. ASSUME NEW c \in Calls, Rotates(c) PROVE links' = links
      BY <3>2 DEF Rotates, BeginRefresh, BeginLogout, RefreshReadsUser, Rotate, Logout
    <3>3. ASSUME NEW c \in Calls, Moderates(c) PROVE links' = links
      BY <3>3 DEF Moderates, BeginStatus, WriteStatus, BeginDelete, EraseUser
    <3>4. ASSUME NEW c \in Calls, Purge(c) \/ Dies(c) \/ \E s \in Sessions : Mint(c, s)
          PROVE  links' = links
      BY <3>4 DEF Purge, Dies, Mint
    <3>5. ASSUME NEW c \in Calls, BeginChangePassword(c) \/ BeginForgot(c) \/ ResetReadsUser(c)
                    \/ SetPasswordHash(c) \/ \E l \in Links : BeginReset(c, l)
          PROVE  links' = links
      BY <3>5 DEF BeginChangePassword, BeginForgot, ResetReadsUser, SetPasswordHash, BeginReset
    <3>6. ASSUME LockExpires \/ \E s \in Sessions : SessionExpires(s) \/ SessionSwept(s)
          PROVE  links' = links
      BY <3>6 DEF LockExpires, SessionExpires, SessionSwept
    <3>7. CASE UNCHANGED vars
      BY <3>7 DEF vars
    <3> QED
      BY <3>1, <3>2, <3>3, <3>4, <3>5, <3>6, <3>7 DEF Next, SetsPassword, Time
  <2> QED
    BY <2>1 DEF SpendLinks, BurnLink, CreateLink, LinkExpires, TypeOK
<1>2. failed' >= failed
  <2>1. failed' = failed \/ failed' = failed + 1
    <3>1. ASSUME NEW c \in Calls, RecordFailedLogin(c) PROVE failed' = failed \/ failed' = failed + 1
      BY <3>1 DEF RecordFailedLogin
    <3>2. ASSUME NEW c \in Calls,
                 BeginRegister(c) \/ Register(c) \/ BeginLogin(c) \/ RecordSuccessfulLogin(c)
          PROVE  failed' = failed
      BY <3>2 DEF BeginRegister, Register, BeginLogin, RecordSuccessfulLogin
    <3>3. ASSUME NEW c \in Calls, Rotates(c) PROVE failed' = failed
      BY <3>3 DEF Rotates, BeginRefresh, BeginLogout, RefreshReadsUser, Rotate, Logout
    <3>4. ASSUME NEW c \in Calls, SetsPassword(c) PROVE failed' = failed
      BY <3>4 DEF SetsPassword, BeginChangePassword, BeginForgot, SpendLinks, CreateLink,
                  BeginReset, ResetReadsUser, BurnLink, SetPasswordHash
    <3>5. ASSUME NEW c \in Calls, Moderates(c) PROVE failed' = failed
      BY <3>5 DEF Moderates, BeginStatus, WriteStatus, BeginDelete, EraseUser
    <3>6. ASSUME NEW c \in Calls, Purge(c) \/ Dies(c) \/ \E s \in Sessions : Mint(c, s)
          PROVE  failed' = failed
      BY <3>6 DEF Purge, Dies, Mint
    <3>7. ASSUME Time PROVE failed' = failed
      BY <3>7 DEF Time, LockExpires, SessionExpires, SessionSwept, LinkExpires
    <3>8. CASE UNCHANGED vars
      BY <3>8 DEF vars
    <3> QED
      BY <3>1, <3>2, <3>3, <3>4, <3>5, <3>6, <3>7, <3>8 DEF Next, SignsIn
  <2>2. failed \in Nat
    BY DEF TypeOK
  <2> QED
    BY <2>1, <2>2
<1> QED
  BY <1>1, <1>2, SessionsGrowStep DEF Grows

(* A replay that was seen stays seen. *)
LEMMA ReplayStays ==
    ASSUME TypeOK, TypeOK', AllKept, SessionsGrow, Replay
    PROVE  Replay'
<1>1. PICK s \in Sessions : sessions[s].shown >= 2 /\ sessions[s].heir # None
  BY DEF Replay
<1>2. sessions[s].state # "none"
  BY <1>1 DEF AllKept, Kept, NoSession
<1>3. sessions[s].shown \in Nat /\ sessions'[s].shown \in Nat
  BY DEF TypeOK, Session
<1>4. sessions'[s].shown >= 2 /\ sessions'[s].heir # None
  BY <1>1, <1>2, <1>3 DEF SessionsGrow
<1> QED
  BY <1>4 DEF Replay

-------------------------------------------------------------------------------
(* Every session's record stays true.                                      *)

(* What a record says of its heir and of its parent keeps being true.      *)
LEMMA LinksStay ==
    ASSUME TypeOK, TypeOK', AllKept, SessionsGrow, NEW s \in Sessions, sessions[s].state # "none"
    PROVE  /\ sessions'[s].state # "none"
           /\ sessions[s].heir # None =>
                 /\ sessions'[s].heir = sessions[s].heir
                 /\ sessions'[s].shown >= 1
                 /\ sessions'[sessions[s].heir].state # "none"
                 /\ sessions'[sessions[s].heir].parent = s
           /\ sessions'[s].parent # None =>
                 /\ sessions'[sessions'[s].parent].state # "none"
                 /\ sessions'[s].began <= sessions'[sessions'[s].parent].born
<1>1. Kept(s) /\ sessions[s] \in Session /\ sessions'[s] \in Session
  BY DEF AllKept, TypeOK
<1>2. /\ sessions'[s].state # "none" /\ sessions'[s].parent = sessions[s].parent
      /\ sessions'[s].began = sessions[s].began
  BY DEF SessionsGrow
<1>3. ASSUME sessions[s].heir # None
      PROVE  /\ sessions'[s].heir = sessions[s].heir
             /\ sessions'[s].shown >= 1
             /\ sessions'[sessions[s].heir].state # "none"
             /\ sessions'[sessions[s].heir].parent = s
  <2>1. sessions[s].heir \in Sessions
    BY <1>1, <1>3 DEF Session
  <2>2. sessions[s].shown \in Nat /\ sessions'[s].shown \in Nat
    BY <1>1 DEF Session
  <2>3. /\ sessions[s].shown >= 1 /\ sessions[sessions[s].heir].state # "none"
        /\ sessions[sessions[s].heir].parent = s
    BY <1>1, <1>3 DEF Kept
  <2>4. sessions'[s].shown >= sessions[s].shown /\ sessions'[s].heir = sessions[s].heir
    BY <1>3 DEF SessionsGrow
  <2> QED
    BY <2>1, <2>2, <2>3, <2>4 DEF SessionsGrow
<1>4. ASSUME sessions'[s].parent # None
      PROVE  /\ sessions'[sessions'[s].parent].state # "none"
             /\ sessions'[s].began <= sessions'[sessions'[s].parent].born
  <2>1. sessions[s].parent \in Sessions
    BY <1>1, <1>2, <1>4 DEF Session
  <2>2. /\ sessions[sessions[s].parent].state # "none"
        /\ sessions[s].began <= sessions[sessions[s].parent].born
    BY <1>1, <1>2, <1>4 DEF Kept
  <2> QED
    BY <1>2, <2>1, <2>2 DEF SessionsGrow
<1> QED
  BY <1>2, <1>3, <1>4

LEMMA KeptStays ==
    ASSUME TypeOK, TypeOK', AllKept, SessionsGrow,
           NEW s \in Sessions,
           \/ sessions'[s] = sessions[s] /\ sessions[s].state = "none"
           \/ /\ sessions[s].state # "none"
              /\ sessions'[s].state \in {sessions[s].state, "swept"}
              /\ sessions'[s].reason = sessions[s].reason
              /\ sessions'[s].heir = sessions[s].heir,
           purges' = purges \/ sessions[s].state # "live"
    PROVE  Kept(s)'
<1>1. Kept(s)
  BY DEF AllKept
<1>2. CASE sessions[s].state = "none"
  <2>1. sessions'[s] = NoSession
    BY <1>1, <1>2 DEF Kept
  <2> QED
    BY <2>1 DEF Kept, NoSession
<1>3. CASE sessions[s].state # "none"
  <2>1. /\ sessions'[s].state # "none"
        /\ sessions'[s].born = sessions[s].born
        /\ sessions'[s].reason = sessions[s].reason
        /\ sessions'[s].heir = sessions[s].heir
    BY <1>3 DEF SessionsGrow
  <2>2. sessions'[s].state = "live" => /\ sessions'[s].reason = "null"
                                       /\ sessions'[s].heir = None
                                       /\ sessions'[s].born = purges'
    BY <1>1, <1>3, <2>1 DEF Kept
  <2>3. sessions'[s].reason = "rotated" <=> sessions'[s].heir # None
    BY <1>1, <2>1 DEF Kept
  <2>4. sessions'[s].reason = "reuse_detected" => Replay'
    BY <1>1, <2>1, ReplayStays DEF Kept
  <2> QED
    BY <1>3, <2>1, <2>2, <2>3, <2>4, LinksStay DEF Kept
<1> QED
  BY <1>2, <1>3

LEMMA KeptStep ==
    ASSUME TypeOK, TypeOK', AllSound, AllKept, [Next]_vars
    PROVE  AllKept'
<1>1. SessionsGrow
  BY SessionsGrowStep
<1>2. \A s \in Sessions : sessions[s] \in Session /\ sessions'[s] \in Session
  BY DEF TypeOK
<1>3. SUFFICES ASSUME NEW s \in Sessions PROVE Kept(s)'
  BY DEF AllKept
<1>4. CASE sessions' = sessions /\ purges' = purges
  BY <1>1, <1>4, KeptStays
<1>5. ASSUME NEW r \in Sessions, Marks(r), purges' = purges PROVE Kept(s)'
  <2>1. CASE r = s
    <3>1. /\ sessions[s].state # "none"
          /\ sessions'[s].state \in {sessions[s].state, "swept"}
          /\ sessions'[s].reason = sessions[s].reason
          /\ sessions'[s].heir = sessions[s].heir
      BY <1>2, <1>5, <2>1 DEF Marks, TypeOK, Session
    <3> QED
      BY <1>1, <1>5, <3>1, KeptStays
  <2>2. CASE r # s
    <3>1. sessions'[s] = sessions[s]
      BY <1>5, <2>2 DEF Marks, TypeOK
    <3> QED
      BY <1>1, <1>5, <3>1, KeptStays
  <2> QED
    BY <2>1, <2>2
<1>6. ASSUME NEW r \in Sessions, NEW heir \in Sessions \cup {None}, NEW reason \in Reason,
             EndsOne(r, heir, reason), purges' = purges
      PROVE  Kept(s)'
  <2>1. CASE r = s
    <3>1. /\ sessions'[s].state = "revoked" /\ sessions'[s].reason = reason
          /\ sessions'[s].heir = heir
      BY <1>2, <1>6, <2>1 DEF EndsOne, TypeOK, Session
    <3>2. sessions[s].state # "none"
      BY <1>6, <2>1 DEF EndsOne
    <3>3. heir # None <=> reason = "rotated"
      BY <1>6, NoneIsNone DEF EndsOne
    <3>4. heir # None => /\ sessions'[s].shown >= 1
                         /\ sessions'[heir].state # "none" /\ sessions'[heir].parent = s
      <4>1. sessions[s].shown \in Nat /\ sessions'[s].shown \in Nat
        BY <1>2 DEF Session
      <4> QED
        BY <1>1, <1>6, <2>1, <3>2, <4>1 DEF EndsOne, SessionsGrow
    <3>5. reason # "reuse_detected"
      BY <1>6 DEF EndsOne
    <3> QED
      BY <1>1, <3>1, <3>2, <3>3, <3>4, <3>5, LinksStay DEF Kept
  <2>2. CASE r # s
    <3>1. sessions'[s] = sessions[s]
      BY <1>6, <2>2 DEF EndsOne, TypeOK
    <3> QED
      BY <1>1, <1>6, <3>1, KeptStays
  <2> QED
    BY <2>1, <2>2
<1>7. ASSUME NEW reason \in Reason \ {"logout", "rotated"}, EndsAll(reason) PROVE Kept(s)'
  <2>1. CASE sessions[s].state # "live"
    <3>1. sessions'[s] = sessions[s]
      BY <1>7, <2>1 DEF EndsAll, RevokeAll
    <3> QED
      BY <1>1, <2>1, <3>1, KeptStays
  <2>2. CASE sessions[s].state = "live"
    <3>1. sessions'[s] = [sessions[s] EXCEPT !.state = "revoked", !.reason = reason]
      BY <1>7, <2>2 DEF EndsAll, RevokeAll
    <3>2. /\ sessions'[s].state = "revoked" /\ sessions'[s].reason = reason
          /\ sessions'[s].heir = sessions[s].heir
      BY <1>2, <3>1 DEF Session
    <3>3. sessions[s].heir = None
      BY <2>2 DEF AllKept, Kept
    <3>4. reason = "reuse_detected" => Replay'
      BY <1>1, <1>7, ReplayStays DEF EndsAll
    <3> QED
      BY <1>1, <2>2, <3>2, <3>3, <3>4, LinksStay DEF Kept
  <2> QED
    BY <2>1, <2>2
<1>8. ASSUME NEW c \in Calls, NEW r \in Sessions, Mint(c, r) PROVE Kept(s)'
  <2>0. purges' = purges
    BY <1>8 DEF Mint, history
  <2>1. CASE r = s
    <3>1. sessions'[s] = [NoSession EXCEPT !.state = "live", !.parent = calls[c].session,
                                           !.began = calls[c].began, !.born = purges]
      BY <1>8, <2>1 DEF Mint, TypeOK
    <3>2. /\ sessions'[s].state = "live" /\ sessions'[s].reason = "null"
          /\ sessions'[s].heir = None /\ sessions'[s].born = purges'
          /\ sessions'[s].parent = calls[c].session /\ sessions'[s].began = calls[c].began
      BY <2>0, <3>1 DEF NoSession
    <3>3. calls[c].session # None => /\ calls[c].session \in Sessions
                                     /\ sessions[calls[c].session].state # "none"
                                     /\ calls[c].began <= sessions[calls[c].session].born
      BY <1>8 DEF Mint, AllSound, Sound, TypeOK, Call
    <3>4. calls[c].session # None => /\ sessions'[calls[c].session].state # "none"
                                     /\ calls[c].began <= sessions'[calls[c].session].born
      BY <1>1, <3>3 DEF SessionsGrow
    <3> QED
      BY <3>2, <3>4 DEF Kept
  <2>2. CASE r # s
    <3>1. sessions'[s] = sessions[s]
      BY <1>8, <2>2 DEF Mint, TypeOK
    <3> QED
      BY <1>1, <2>0, <3>1, KeptStays
  <2> QED
    BY <2>1, <2>2
<1> QED
  BY <1>4, <1>5, <1>6, <1>7, <1>8, SessionsEffect

-------------------------------------------------------------------------------
(* What a call relies on stays true.                                       *)

LEMMA CoreStays ==
    ASSUME TypeOK, TypeOK', AllKept, Grows, NEW c \in Calls, Sound(calls[c])
    PROVE  /\ calls[c].began <= purges' /\ calls[c].seen <= failed'
           /\ calls[c].session # None => sessions'[calls[c].session].state # "none"
           /\ calls[c].session # None /\ calls[c].pc # "logout" =>
                 /\ sessions'[calls[c].session].shown >= 1
                 /\ calls[c].began <= sessions'[calls[c].session].born
           /\ calls[c].pc = "rotate" => /\ sessions'[calls[c].minted].state # "none"
                                        /\ sessions'[calls[c].minted].parent = calls[c].session
           /\ calls[c].pc = "set" /\ calls[c].link # None => links'[calls[c].link] = "used"
           /\ Replay => Replay'
<1>1. /\ calls[c] \in Call /\ purges \in Nat /\ purges' \in Nat
      /\ failed \in Nat /\ failed' \in Nat
  BY DEF TypeOK
<1>2. /\ calls[c].began \in Nat /\ calls[c].seen \in Nat
      /\ calls[c].session \in Sessions \cup {None} /\ calls[c].minted \in Sessions \cup {None}
      /\ calls[c].link \in Links \cup {None}
  BY <1>1 DEF Call
<1>3. calls[c].began <= purges' /\ calls[c].seen <= failed'
  BY <1>1, <1>2 DEF Sound, Grows
<1>4. ASSUME calls[c].session # None
      PROVE  /\ sessions'[calls[c].session].state # "none"
             /\ calls[c].pc # "logout" => /\ sessions'[calls[c].session].shown >= 1
                                          /\ calls[c].began <= sessions'[calls[c].session].born
  <2>1. calls[c].session \in Sessions
    BY <1>2, <1>4
  <2>2. sessions[calls[c].session].state # "none"
    BY <1>4 DEF Sound
  <2>3. /\ sessions[calls[c].session].shown \in Nat
        /\ sessions'[calls[c].session].shown \in Nat
    BY <2>1 DEF TypeOK, Session
  <2>4. /\ sessions'[calls[c].session].state # "none"
        /\ sessions'[calls[c].session].born = sessions[calls[c].session].born
        /\ sessions'[calls[c].session].shown >= sessions[calls[c].session].shown
    BY <2>1, <2>2 DEF Grows, SessionsGrow
  <2>5. calls[c].pc # "logout" => /\ sessions[calls[c].session].shown >= 1
                                  /\ calls[c].began <= sessions[calls[c].session].born
    BY <1>4 DEF Sound
  <2> QED
    BY <2>3, <2>4, <2>5
<1>5. ASSUME calls[c].pc = "rotate"
      PROVE  /\ sessions'[calls[c].minted].state # "none"
             /\ sessions'[calls[c].minted].parent = calls[c].session
  <2>1. calls[c].minted \in Sessions
    BY <1>2, <1>5 DEF Sound
  <2> QED
    BY <1>5, <2>1 DEF Sound, Grows, SessionsGrow
<1>6. calls[c].pc = "set" /\ calls[c].link # None => links'[calls[c].link] = "used"
  BY <1>2 DEF Sound, Grows
<1>7. Replay => Replay'
  BY ReplayStays DEF Grows
<1> QED
  BY <1>3, <1>4, <1>5, <1>6, <1>7

LEMMA StillSound ==
    ASSUME TypeOK, TypeOK', AllKept, Grows, NEW c \in Calls, Sound(calls[c]),
           calls'[c] = calls[c]
    PROVE  Sound(calls[c])'
BY CoreStays DEF Sound

(* A call that begins knows only what it has just read.                    *)
LEMMA BeginsSound ==
    ASSUME TypeOK, TypeOK', AllSound, AllKept, Grows, NEW c \in Calls, NEW k \in Call,
           Begins(c, k), k.seen <= failed, k.minted = None,
           k.session = None \/ k.pc \in {"user", "logout"},
           k.pc \in {"user", "logout"} => /\ k.session # None
                                          /\ sessions'[k.session].state # "none",
           k.pc = "user" => /\ sessions'[k.session].shown >= 1
                            /\ purges <= sessions'[k.session].born,
           k.pc = "owner" => k.link # None,
           k.pc \notin {"rotate", "burn"}, k.pc = "set" => k.link = None,
           k.pc = "purge" => k.next = "reuse_detected" /\ Replay',
           k.pc = "status" => k.next \in {"allowed", "banned", "deleted"}
    PROVE  AllSound'
<1> SUFFICES ASSUME NEW d \in Calls PROVE Sound(calls[d])'
  BY DEF AllSound
<1>1. CASE d # c
  <2>1. calls'[d] = calls[d]
    BY <1>1 DEF Begins, TypeOK
  <2> QED
    BY <2>1, StillSound DEF AllSound
<1>2. CASE d = c
  <2>1. calls'[c] = [k EXCEPT !.began = purges]
    BY DEF Begins, TypeOK
  <2>2. /\ calls'[c].pc = k.pc /\ calls'[c].session = k.session /\ calls'[c].minted = k.minted
        /\ calls'[c].link = k.link /\ calls'[c].seen = k.seen /\ calls'[c].next = k.next
        /\ calls'[c].began = purges
    BY <2>1 DEF Call
  <2>3. purges <= purges' /\ k.seen <= failed'
    <3>1. purges \in Nat /\ purges' \in Nat /\ failed \in Nat /\ failed' \in Nat /\ k.seen \in Nat
      BY DEF TypeOK, Call
    <3> QED
      BY <3>1 DEF Grows
  <2>4. "reuse_detected" \in Reason \ {"logout", "rotated"}
    BY DEF Reason
  <2> QED
    BY <1>2, <2>2, <2>3, <2>4 DEF Sound
<1> QED
  BY <1>1, <1>2

(* A call that is over knows nothing.                                      *)
LEMMA EndsSound ==
    ASSUME TypeOK, TypeOK', AllSound, AllKept, Grows, NEW c \in Calls, Ends(c)
    PROVE  AllSound'
<1> SUFFICES ASSUME NEW d \in Calls PROVE Sound(calls[d])'
  BY DEF AllSound
<1>1. CASE d # c
  <2>1. calls'[d] = calls[d]
    BY <1>1 DEF Ends, TypeOK
  <2> QED
    BY <2>1, StillSound DEF AllSound
<1>2. CASE d = c
  <2>1. calls'[c] = Idle
    BY DEF Ends, TypeOK
  <2>2. purges' \in Nat /\ failed' \in Nat
    BY DEF TypeOK
  <2> QED
    BY <1>2, <2>1, <2>2 DEF Sound, Idle, None
<1> QED
  BY <1>1, <1>2

(* A call that moves on takes along what it knew.                          *)
LEMMA GoesSound ==
    ASSUME TypeOK, TypeOK', AllSound, AllKept, Grows, NEW c \in Calls, NEW pc \in Step,
           Goes(c, pc), calls[c].pc # "logout",
           pc \in {"success", "mint", "link", "burn", "set"},
           pc = "burn" => calls[c].link # None,
           pc = "set" /\ calls[c].link # None => links'[calls[c].link] = "used"
    PROVE  AllSound'
<1> SUFFICES ASSUME NEW d \in Calls PROVE Sound(calls[d])'
  BY DEF AllSound
<1>1. CASE d # c
  <2>1. calls'[d] = calls[d]
    BY <1>1 DEF Goes, TypeOK
  <2> QED
    BY <2>1, StillSound DEF AllSound
<1>2. CASE d = c
  <2>1. calls'[c] = [calls[c] EXCEPT !.pc = pc]
    BY DEF Goes, TypeOK
  <2>2. calls[c] \in Call
    BY DEF TypeOK
  <2>3. /\ calls'[c].pc = pc /\ calls'[c].session = calls[c].session
        /\ calls'[c].link = calls[c].link /\ calls'[c].seen = calls[c].seen
        /\ calls'[c].began = calls[c].began
    BY <2>1, <2>2 DEF Call
  <2>4. Sound(calls[c])
    BY DEF AllSound
  <2> QED
    BY <1>2, <2>3, <2>4, CoreStays DEF Sound
<1> QED
  BY <1>1, <1>2

(* A call that goes on to revoke everything, for a reason it has.          *)
LEMMA WritesSound ==
    ASSUME TypeOK, TypeOK', AllSound, AllKept, Grows, NEW c \in Calls,
           NEW next \in {"password_change", "status_change"}, calls[c].pc # "logout",
           calls' = [calls EXCEPT ![c].pc = "purge", ![c].next = next]
    PROVE  AllSound'
<1> SUFFICES ASSUME NEW d \in Calls PROVE Sound(calls[d])'
  BY DEF AllSound
<1>1. CASE d # c
  <2>1. calls'[d] = calls[d]
    BY <1>1 DEF TypeOK
  <2> QED
    BY <2>1, StillSound DEF AllSound
<1>2. CASE d = c
  <2>1. calls[c] \in Call
    BY DEF TypeOK
  <2>2. /\ calls'[c].pc = "purge" /\ calls'[c].session = calls[c].session
        /\ calls'[c].link = calls[c].link /\ calls'[c].seen = calls[c].seen
        /\ calls'[c].began = calls[c].began /\ calls'[c].next = next
    BY <2>1 DEF Call, TypeOK
  <2>3. Sound(calls[c])
    BY DEF AllSound
  <2>4. next \in Reason \ {"logout", "rotated"} /\ next # "reuse_detected"
    BY DEF Reason
  <2> QED
    BY <1>2, <2>2, <2>3, <2>4, CoreStays DEF Sound
<1> QED
  BY <1>1, <1>2

LEMMA SoundSignsIn ==
    ASSUME TypeOK, TypeOK', AllSound, AllKept, Grows, NEW c \in Calls, SignsIn(c),
           user.failures <= failed
    PROVE  AllSound'
<1>1. CASE BeginRegister(c)
  <2>1. [Idle EXCEPT !.pc = "register"] \in Call
    BY IdleIsSound DEF Call, Step
  <2>2. failed \in Nat
    BY DEF TypeOK
  <2> QED
    BY <1>1, <2>1, <2>2, BeginsSound DEF BeginRegister, Idle
<1>2. CASE Register(c)
  <2>1. "mint" \in Step /\ calls[c].pc # "logout"
    BY <1>2 DEF Step, Register
  <2> QED
    BY <1>2, <2>1, GoesSound, EndsSound DEF Register
<1>3. CASE BeginLogin(c)
  <2>1. PICK k \in {[Idle EXCEPT !.pc = "failure", !.seen = user.failures],
                    [Idle EXCEPT !.pc = "success"]} : Begins(c, k)
    BY <1>3 DEF BeginLogin
  <2>2. user.failures \in Nat /\ failed \in Nat
    BY DEF TypeOK, User
  <2>3. k \in Call
    BY <2>2, IdleIsSound DEF Call, Step
  <2>4. /\ k.pc \in {"failure", "success"} /\ k.session = None /\ k.minted = None
        /\ k.seen \in {0, user.failures}
    BY DEF Idle
  <2>5. k.seen <= failed
    BY <2>2, <2>4
  <2> QED
    BY <2>1, <2>3, <2>4, <2>5, BeginsSound
<1>4. CASE RecordFailedLogin(c)
  BY <1>4, EndsSound DEF RecordFailedLogin
<1>5. CASE RecordSuccessfulLogin(c)
  <2>1. "mint" \in Step /\ calls[c].pc # "logout"
    BY <1>5 DEF Step, RecordSuccessfulLogin
  <2> QED
    BY <1>5, <2>1, GoesSound DEF RecordSuccessfulLogin
<1> QED
  BY <1>1, <1>2, <1>3, <1>4, <1>5 DEF SignsIn

LEMMA SoundRotates ==
    ASSUME TypeOK, TypeOK', AllSound, AllKept, Grows, NEW c \in Calls, Rotates(c)
    PROVE  AllSound'
<1>0. failed \in Nat
  BY DEF TypeOK
<1>1. ASSUME NEW s \in Sessions, BeginRefresh(c, s) PROVE AllSound'
  <2>1. sessions[s] \in Session /\ sessions'[s] = [sessions[s] EXCEPT !.shown = @ + 1]
    BY <1>1 DEF BeginRefresh, TypeOK
  <2>2. /\ sessions'[s].shown = sessions[s].shown + 1 /\ sessions'[s].heir = sessions[s].heir
        /\ sessions'[s].state = sessions[s].state /\ sessions'[s].born = sessions[s].born
    BY <2>1 DEF Session
  <2>3. sessions[s].shown \in Nat /\ sessions[s].born \in Nat
    BY <2>1 DEF Session
  <2>4. CASE Replayed(s) /\ Begins(c, [Idle EXCEPT !.pc = "purge", !.next = "reuse_detected"])
    <3>1. [Idle EXCEPT !.pc = "purge", !.next = "reuse_detected"] \in Call
      BY IdleIsSound DEF Call, Step, Reason
    <3>2. sessions[s].heir # None /\ sessions[s].shown >= 1
      BY <2>4 DEF Replayed, AllKept, Kept
    <3>3. Replay'
      BY <2>2, <2>3, <3>2 DEF Replay
    <3> DEFINE k == [Idle EXCEPT !.pc = "purge", !.next = "reuse_detected"]
    <3>4. /\ k.pc = "purge" /\ k.next = "reuse_detected" /\ k.session = None
          /\ k.minted = None /\ k.seen = 0
      BY DEF Idle
    <3>5. k \in Call /\ Begins(c, k)
      BY <2>4, <3>1
    <3> HIDE DEF k
    <3> QED
      BY <1>0, <3>3, <3>4, <3>5, BeginsSound
  <2>5. CASE /\ sessions[s].state = "live"
             /\ Begins(c, [Idle EXCEPT !.pc = "user", !.session = s])
    <3>1. [Idle EXCEPT !.pc = "user", !.session = s] \in Call
      BY IdleIsSound DEF Call, Step
    <3>2. sessions[s].born = purges
      BY <2>5 DEF AllKept, Kept
    <3>3. sessions'[s].shown >= 1 /\ purges <= sessions'[s].born
      BY <2>2, <2>3, <3>2
    <3> DEFINE k == [Idle EXCEPT !.pc = "user", !.session = s]
    <3>4. k.pc = "user" /\ k.session = s /\ k.minted = None /\ k.seen = 0
      BY DEF Idle
    <3>5. k \in Call /\ Begins(c, k)
      BY <2>5, <3>1
    <3>6. s # None /\ sessions'[s].state # "none"
      BY <2>2, <2>5, NoneIsNone
    <3> HIDE DEF k
    <3> QED
      BY <1>0, <3>3, <3>4, <3>5, <3>6, BeginsSound
  <2> QED
    BY <1>1, <2>4, <2>5 DEF BeginRefresh
<1>2. ASSUME NEW s \in Sessions, BeginLogout(c, s) PROVE AllSound'
  <2>1. [Idle EXCEPT !.pc = "logout", !.session = s] \in Call
    BY IdleIsSound DEF Call, Step
  <2>2. sessions'[s].state = "live"
    BY <1>2 DEF BeginLogout
  <2> DEFINE k == [Idle EXCEPT !.pc = "logout", !.session = s]
  <2>3. k.pc = "logout" /\ k.session = s /\ k.minted = None /\ k.seen = 0
    BY DEF Idle
  <2>4. k \in Call /\ Begins(c, k)
    BY <1>2, <2>1 DEF BeginLogout
  <2> HIDE DEF k
  <2> QED
    BY <1>0, <2>2, <2>3, <2>4, NoneIsNone, BeginsSound
<1>3. CASE RefreshReadsUser(c)
  <2>1. "mint" \in Step /\ calls[c].pc # "logout"
    BY <1>3 DEF Step, RefreshReadsUser
  <2> QED
    BY <1>3, <2>1, GoesSound, EndsSound, WritesSound DEF RefreshReadsUser
<1>4. CASE Rotate(c) \/ Logout(c)
  BY <1>4, EndsSound DEF Rotate, Logout
<1> QED
  BY <1>1, <1>2, <1>3, <1>4 DEF Rotates

LEMMA SoundSetsPassword ==
    ASSUME TypeOK, TypeOK', AllSound, AllKept, Grows, NEW c \in Calls, SetsPassword(c)
    PROVE  AllSound'
<1>0. failed \in Nat
  BY DEF TypeOK
<1>1. CASE BeginChangePassword(c) \/ BeginForgot(c)
  <2>1. PICK k \in {[Idle EXCEPT !.pc = "set"], [Idle EXCEPT !.pc = "spend"]} : Begins(c, k)
    BY <1>1 DEF BeginChangePassword, BeginForgot
  <2>2. k \in Call
    BY IdleIsSound DEF Call, Step
  <2>3. /\ k.pc \in {"set", "spend"} /\ k.session = None /\ k.minted = None /\ k.link = None
        /\ k.seen <= failed
    BY <1>0 DEF Idle
  <2> QED
    BY <2>1, <2>2, <2>3, BeginsSound
<1>2. CASE SpendLinks(c)
  <2>1. "link" \in Step /\ calls[c].pc # "logout"
    BY <1>2 DEF Step, SpendLinks
  <2> QED
    BY <1>2, <2>1, GoesSound DEF SpendLinks
<1>3. ASSUME NEW l \in Links, CreateLink(c, l) PROVE AllSound'
  BY <1>3, EndsSound DEF CreateLink
<1>4. ASSUME NEW l \in Links, BeginReset(c, l) PROVE AllSound'
  <2>1. [Idle EXCEPT !.pc = "owner", !.link = l] \in Call
    BY IdleIsSound DEF Call, Step
  <2> DEFINE k == [Idle EXCEPT !.pc = "owner", !.link = l]
  <2>2. k.pc = "owner" /\ k.session = None /\ k.minted = None /\ k.seen = 0 /\ k.link = l
    BY DEF Idle
  <2>3. k \in Call /\ Begins(c, k)
    BY <1>4, <2>1 DEF BeginReset
  <2> HIDE DEF k
  <2> QED
    BY <1>0, <2>2, <2>3, NoneIsNone, BeginsSound
<1>5. CASE ResetReadsUser(c)
  <2>1. "burn" \in Step /\ calls[c].pc = "owner" /\ calls[c].link # None
    BY <1>5 DEF Step, ResetReadsUser, AllSound, Sound
  <2> QED
    BY <1>5, <2>1, GoesSound, EndsSound DEF ResetReadsUser
<1>6. CASE BurnLink(c)
  <2>1. "set" \in Step /\ calls[c].pc = "burn" /\ calls[c].link # None
    BY <1>6 DEF Step, BurnLink, AllSound, Sound
  <2>2. calls[c].link \in Links
    BY <2>1 DEF TypeOK, Call
  <2>3. links'[calls[c].link] = "used"
    BY <1>6, <2>2 DEF BurnLink, TypeOK
  <2> QED
    BY <1>6, <2>1, <2>3, GoesSound DEF BurnLink
<1>7. CASE SetPasswordHash(c)
  BY <1>7, WritesSound DEF SetPasswordHash
<1> QED
  BY <1>1, <1>2, <1>3, <1>4, <1>5, <1>6, <1>7 DEF SetsPassword

LEMMA SoundModerates ==
    ASSUME TypeOK, TypeOK', AllSound, AllKept, Grows, NEW c \in Calls, Moderates(c)
    PROVE  AllSound'
<1>0. failed \in Nat
  BY DEF TypeOK
<1>1. ASSUME NEW next \in Status, BeginStatus(c, next) PROVE AllSound'
  <2>1. [Idle EXCEPT !.pc = "status", !.next = next] \in Call
    BY IdleIsSound DEF Call, Step
  <2>2. user.status \in Status
    BY DEF TypeOK, User
  <2>3. next \in {"allowed", "banned", "deleted"}
    BY <1>1, <2>2 DEF BeginStatus, Transitions, Status
  <2> DEFINE k == [Idle EXCEPT !.pc = "status", !.next = next]
  <2>4. k.pc = "status" /\ k.session = None /\ k.minted = None /\ k.seen = 0 /\ k.next = next
    BY DEF Idle
  <2>5. k \in Call /\ Begins(c, k)
    BY <1>1, <2>1 DEF BeginStatus
  <2> HIDE DEF k
  <2> QED
    BY <1>0, <2>3, <2>4, <2>5, BeginsSound
<1>2. CASE WriteStatus(c)
  <2>1. calls[c].pc # "logout"
    BY <1>2 DEF WriteStatus
  <2> QED
    BY <1>2, <2>1, EndsSound, WritesSound DEF WriteStatus
<1>3. CASE BeginDelete(c)
  <2>1. [Idle EXCEPT !.pc = "erase"] \in Call
    BY IdleIsSound DEF Call, Step
  <2> QED
    BY <1>0, <1>3, <2>1, BeginsSound DEF BeginDelete, Idle
<1>4. CASE EraseUser(c)
  BY <1>4, EndsSound DEF EraseUser
<1> QED
  BY <1>1, <1>2, <1>3, <1>4 DEF Moderates

LEMMA SoundMint ==
    ASSUME TypeOK, TypeOK', AllSound, AllKept, Grows, NEW c \in Calls, NEW s \in Sessions,
           Mint(c, s)
    PROVE  AllSound'
<1>1. CASE calls[c].session = None
  BY <1>1, EndsSound DEF Mint, Ends
<1>2. CASE calls[c].session # None
  <2> SUFFICES ASSUME NEW d \in Calls PROVE Sound(calls[d])'
    BY DEF AllSound
  <2>1. calls' = [calls EXCEPT ![c] = [calls[c] EXCEPT !.pc = "rotate", !.minted = s]]
    BY <1>2 DEF Mint
  <2>2. CASE d # c
    <3>1. calls'[d] = calls[d]
      BY <2>1, <2>2 DEF TypeOK
    <3> QED
      BY <3>1, StillSound DEF AllSound
  <2>3. CASE d = c
    <3>1. calls[c] \in Call
      BY DEF TypeOK
    <3>2. /\ calls'[c].pc = "rotate" /\ calls'[c].session = calls[c].session
          /\ calls'[c].minted = s /\ calls'[c].link = calls[c].link
          /\ calls'[c].seen = calls[c].seen /\ calls'[c].began = calls[c].began
      BY <2>1, <3>1 DEF Call, TypeOK
    <3>3. sessions'[s] = [NoSession EXCEPT !.state = "live", !.parent = calls[c].session,
                                           !.began = calls[c].began, !.born = purges]
      BY DEF Mint, TypeOK
    <3>4. sessions'[s].state = "live" /\ sessions'[s].parent = calls[c].session
      BY <3>3 DEF NoSession
    <3>5. Sound(calls[c]) /\ calls[c].pc = "mint"
      BY DEF AllSound, Mint
    <3> QED
      BY <1>2, <2>3, <3>2, <3>4, <3>5, NoneIsNone, CoreStays DEF Sound
  <2> QED
    BY <2>2, <2>3
<1> QED
  BY <1>1, <1>2

LEMMA SoundStep ==
    ASSUME TypeOK, TypeOK', AllSound, AllKept, [Next]_vars, user.failures <= failed
    PROVE  AllSound'
<1>1. Grows
  BY GrowsStep
<1>2. CASE UNCHANGED vars \/ Time
  <2>1. calls' = calls
    BY <1>2 DEF vars, Time, LockExpires, SessionExpires, SessionSwept, LinkExpires
  <2> SUFFICES ASSUME NEW c \in Calls PROVE Sound(calls[c])'
    BY DEF AllSound
  <2> QED
    BY <1>1, <2>1, StillSound DEF AllSound
<1>3. ASSUME NEW c \in Calls, Purge(c) \/ Dies(c) PROVE AllSound'
  BY <1>1, <1>3, EndsSound DEF Purge, Dies
<1> QED
  BY <1>1, <1>2, <1>3, SoundSignsIn, SoundRotates, SoundSetsPassword, SoundModerates, SoundMint
  DEF Next

-------------------------------------------------------------------------------
(* The lock and the links.                                                 *)

Earned == user.failures <= failed /\ LockWasEarned

LEMMA EarnedStep ==
    ASSUME TypeOK, TypeOK', AllSound, Earned, [Next]_vars
    PROVE  Earned'
<1> USE DEF history, spent
<1>0. /\ user \in User /\ failed \in Nat /\ MaxFailures \in Nat
      /\ user.failures \in Nat /\ user.locked \in BOOLEAN
  BY SessionsAssumption DEF TypeOK, User
<1>1. CASE user' = user /\ failed' = failed
  BY <1>1 DEF Earned, LockWasEarned
<1>2. ASSUME NEW status, user' = [user EXCEPT !.status = status], failed' = failed PROVE Earned'
  <2>1. user'.failures = user.failures /\ user'.locked = user.locked
    BY <1>0, <1>2 DEF User
  <2> QED
    BY <1>2, <2>1 DEF Earned, LockWasEarned
<1>3. ASSUME NEW c \in Calls, RecordFailedLogin(c) PROVE Earned'
  <2>1. CASE ~Exists
    BY <1>1, <1>3, <2>1 DEF RecordFailedLogin
  <2>2. CASE Exists
    <3>1. failed' = failed + 1
      BY <1>3, <2>2 DEF RecordFailedLogin
    <3>2. user'.failures = user.failures + 1
      BY <1>0, <1>3, <2>2 DEF RecordFailedLogin, User
    <3>3. user'.locked => user.locked \/ Locks(calls[c].seen)
      BY <1>0, <1>3, <2>2 DEF RecordFailedLogin, User
    <3>4. calls[c].seen \in Nat /\ calls[c].seen <= failed
      BY DEF AllSound, Sound, TypeOK, Call
    <3>5. Locks(calls[c].seen) => failed' >= MaxFailures
      BY <1>0, <3>1, <3>4 DEF Locks
    <3>6. user.failures <= failed /\ (user.locked => failed >= MaxFailures)
      BY DEF Earned, LockWasEarned
    <3>7. user'.locked => failed' >= MaxFailures
      BY <1>0, <3>1, <3>3, <3>5, <3>6
    <3>8. user'.failures <= failed'
      BY <1>0, <3>1, <3>2, <3>6
    <3> QED
      BY <3>7, <3>8 DEF Earned, LockWasEarned
  <2> QED
    BY <2>1, <2>2
<1>4. ASSUME NEW c \in Calls, RecordSuccessfulLogin(c) PROVE Earned'
  <2>1. CASE ~Exists
    BY <1>1, <1>4, <2>1 DEF RecordSuccessfulLogin
  <2>2. CASE Exists
    <3>1. user'.failures = 0 /\ user'.locked = FALSE /\ failed' = failed
      BY <1>0, <1>4, <2>2 DEF RecordSuccessfulLogin, User
    <3> QED
      BY <1>0, <3>1 DEF Earned, LockWasEarned
  <2> QED
    BY <2>1, <2>2
<1>5. CASE LockExpires
  <2>1. user'.failures = user.failures /\ user'.locked = FALSE /\ failed' = failed
    BY <1>0, <1>5 DEF LockExpires, User
  <2> QED
    BY <2>1 DEF Earned, LockWasEarned
<1>6. ASSUME NEW c \in Calls, Register(c) \/ WriteStatus(c) \/ EraseUser(c) PROVE Earned'
  BY <1>1, <1>2, <1>6 DEF Register, WriteStatus, EraseUser
<1>7. ASSUME NEW c \in Calls, BeginRegister(c) \/ BeginLogin(c) PROVE Earned'
  BY <1>1, <1>7 DEF BeginRegister, BeginLogin
<1>8. ASSUME NEW c \in Calls, Rotates(c) PROVE Earned'
  BY <1>1, <1>8 DEF Rotates, BeginRefresh, BeginLogout, RefreshReadsUser, Rotate, Logout
<1>9. ASSUME NEW c \in Calls, SetsPassword(c) PROVE Earned'
  BY <1>1, <1>9 DEF SetsPassword, BeginChangePassword, BeginForgot, SpendLinks, CreateLink,
                    BeginReset, ResetReadsUser, BurnLink, SetPasswordHash
<1>10. ASSUME NEW c \in Calls, (\E next \in Status : BeginStatus(c, next)) \/ BeginDelete(c)
       PROVE  Earned'
  BY <1>1, <1>10 DEF BeginStatus, BeginDelete
<1>11. ASSUME NEW c \in Calls, Purge(c) \/ Dies(c) \/ \E s \in Sessions : Mint(c, s)
       PROVE  Earned'
  BY <1>1, <1>11 DEF Purge, Dies, Mint
<1>12. ASSUME \/ \E s \in Sessions : SessionExpires(s) \/ SessionSwept(s)
              \/ \E l \in Links : LinkExpires(l)
       PROVE  Earned'
  BY <1>1, <1>12 DEF SessionExpires, SessionSwept, LinkExpires
<1>13. CASE UNCHANGED vars
  BY <1>1, <1>13 DEF vars
<1> QED
  BY <1>3, <1>4, <1>5, <1>6, <1>7, <1>8, <1>9, <1>10, <1>11, <1>12, <1>13
  DEF Next, SignsIn, Moderates, Time

LEMMA BurntStep ==
    ASSUME TypeOK, AllSound, AllKept, UsedIsBurnt, [Next]_vars
    PROVE  UsedIsBurnt'
<1> USE DEF history, spent
<1>1. \A l \in Links : links[l] = "used" => links'[l] = "used"
  BY GrowsStep DEF Grows
<1>2. CASE resets' = resets
  BY <1>1, <1>2 DEF UsedIsBurnt
<1>3. ASSUME NEW c \in Calls, SetPasswordHash(c) PROVE UsedIsBurnt'
  <2>1. CASE calls[c].link = None
    BY <1>2, <1>3, <2>1 DEF SetPasswordHash
  <2>2. CASE calls[c].link # None
    <3>1. calls[c].link \in Links /\ links[calls[c].link] = "used"
      BY <1>3, <2>2 DEF SetPasswordHash, AllSound, Sound, TypeOK, Call
    <3>2. resets' = [resets EXCEPT ![calls[c].link] = @ + 1]
      BY <1>3, <2>2 DEF SetPasswordHash
    <3> QED
      BY <1>1, <3>1, <3>2 DEF UsedIsBurnt, TypeOK
  <2> QED
    BY <2>1, <2>2
<1>4. ASSUME NEW c \in Calls, SignsIn(c) PROVE resets' = resets
  BY <1>4 DEF SignsIn, BeginRegister, Register, BeginLogin, RecordFailedLogin,
              RecordSuccessfulLogin
<1>5. ASSUME NEW c \in Calls, Rotates(c) PROVE resets' = resets
  BY <1>5 DEF Rotates, BeginRefresh, BeginLogout, RefreshReadsUser, Rotate, Logout
<1>6. ASSUME NEW c \in Calls, BeginChangePassword(c) \/ BeginForgot(c) \/ SpendLinks(c)
                \/ (\E l \in Links : CreateLink(c, l) \/ BeginReset(c, l))
                \/ ResetReadsUser(c) \/ BurnLink(c)
      PROVE  resets' = resets
  BY <1>6 DEF BeginChangePassword, BeginForgot, SpendLinks, CreateLink, BeginReset,
              ResetReadsUser, BurnLink
<1>7. ASSUME NEW c \in Calls, Moderates(c) PROVE resets' = resets
  BY <1>7 DEF Moderates, BeginStatus, WriteStatus, BeginDelete, EraseUser
<1>8. ASSUME NEW c \in Calls, Purge(c) \/ Dies(c) \/ \E s \in Sessions : Mint(c, s)
      PROVE  resets' = resets
  BY <1>8 DEF Purge, Dies, Mint
<1>9. ASSUME Time \/ UNCHANGED vars PROVE resets' = resets
  BY <1>9 DEF Time, LockExpires, SessionExpires, SessionSwept, LinkExpires, vars
<1> QED
  BY <1>2, <1>3, <1>4, <1>5, <1>6, <1>7, <1>8, <1>9 DEF Next, SetsPassword

-------------------------------------------------------------------------------
(* A barred account.                                                       *)

(* The calls that could still leave it a session were under way.           *)
Guarded ==
    barredAt > 0 /\ Barred =>
        \A c \in Calls : calls[c].pc \in {"success", "mint"} => calls[c].began < barredAt

(* A call is on its way to a session only if it already was, or if the     *)
(* account may hold one.                                                   *)
LEMMA MintSources ==
    ASSUME TypeOK, [Next]_vars, NEW c \in Calls, calls'[c].pc \in {"success", "mint"}
    PROVE  \/ calls[c].pc \in {"success", "mint"} /\ calls'[c].began = calls[c].began
           \/ ~Barred'
<1> USE DEF history, spent
<1>0. /\ calls \in [Calls -> Call] /\ \A d \in Calls : calls[d] \in Call
      /\ Idle.pc = "idle" /\ user \in User
  BY DEF TypeOK, Idle
<1>1. CASE calls'[c] = calls[c]
  BY <1>1
<1>2. ASSUME NEW d \in Calls, Ends(d) PROVE calls'[c] = calls[c]
  BY <1>0, <1>2 DEF Ends
<1>3. ASSUME NEW d \in Calls, NEW pc, Goes(d, pc), pc \notin {"success", "mint"}
      PROVE  calls'[c] = calls[c]
  BY <1>0, <1>3 DEF Goes, Call
<1>4. ASSUME NEW d \in Calls, NEW next, calls' = [calls EXCEPT ![d].pc = "purge", ![d].next = next]
      PROVE  calls'[c] = calls[c]
  BY <1>0, <1>4 DEF Call
<1>5. ASSUME NEW d \in Calls, NEW k, Begins(d, k), k \in Call, k.pc \notin {"success", "mint"}
      PROVE  calls'[c] = calls[c]
  <2>1. [k EXCEPT !.began = purges].pc = k.pc
    BY <1>5 DEF Call
  <2> QED
    BY <1>0, <1>5, <2>1 DEF Begins
<1>6. ASSUME NEW d \in Calls, BeginRegister(d)
      PROVE  calls'[c] = calls[c]
  <2>1. [Idle EXCEPT !.pc = "register"] \in Call /\ [Idle EXCEPT !.pc = "register"].pc = "register"
    BY IdleIsSound DEF Call, Step, Idle
  <2> QED
    BY <1>5, <1>6, <2>1 DEF BeginRegister
<1>7. ASSUME NEW d \in Calls, Register(d)
      PROVE  calls'[c] = calls[c] \/ ~Barred'
  <2>1. CASE user.status = "none"
    BY <1>0, <1>7, <2>1 DEF Register, Barred, User
  <2>2. CASE user.status # "none"
    BY <1>2, <1>7, <2>2 DEF Register
  <2> QED
    BY <2>1, <2>2
<1>8. ASSUME NEW d \in Calls, BeginLogin(d) PROVE calls'[c] = calls[c] \/ ~Barred'
  <2>1. CASE Begins(d, [Idle EXCEPT !.pc = "failure", !.seen = user.failures])
    <3> DEFINE k == [Idle EXCEPT !.pc = "failure", !.seen = user.failures]
    <3>1. k \in Call /\ k.pc = "failure"
      BY <1>0, IdleIsSound DEF Call, Step, Idle, User
    <3>2. Begins(d, k)
      BY <2>1
    <3> HIDE DEF k
    <3> QED
      BY <1>5, <3>1, <3>2
  <2>2. CASE ~Barred
    BY <1>8, <2>2 DEF BeginLogin, Barred
  <2> QED
    BY <1>8, <2>1, <2>2 DEF BeginLogin
<1>9. ASSUME NEW d \in Calls, RecordSuccessfulLogin(d)
      PROVE  \/ calls'[c] = calls[c]
             \/ calls[c].pc = "success" /\ calls'[c].began = calls[c].began
  BY <1>0, <1>9 DEF RecordSuccessfulLogin, Goes, Call
<1>10. ASSUME NEW d \in Calls, NEW s \in Sessions, BeginRefresh(d, s) \/ BeginLogout(d, s)
       PROVE  calls'[c] = calls[c]
  <2>1. PICK k \in {[Idle EXCEPT !.pc = "purge", !.next = "reuse_detected"],
                    [Idle EXCEPT !.pc = "user", !.session = s],
                    [Idle EXCEPT !.pc = "logout", !.session = s]} : Begins(d, k)
    BY <1>10 DEF BeginRefresh, BeginLogout
  <2>2. k \in Call
    BY IdleIsSound DEF Call, Step, Reason
  <2>3. k.pc \notin {"success", "mint"}
    BY DEF Idle
  <2> QED
    BY <1>5, <2>1, <2>2, <2>3
<1>11. ASSUME NEW d \in Calls, RefreshReadsUser(d) PROVE calls'[c] = calls[c] \/ ~Barred'
  BY <1>2, <1>4, <1>11 DEF RefreshReadsUser, Barred
<1>12. ASSUME NEW d \in Calls, BeginChangePassword(d) \/ BeginForgot(d) PROVE calls'[c] = calls[c]
  <2>1. PICK k \in {[Idle EXCEPT !.pc = "set"], [Idle EXCEPT !.pc = "spend"]} : Begins(d, k)
    BY <1>12 DEF BeginChangePassword, BeginForgot
  <2>2. k \in Call
    BY IdleIsSound DEF Call, Step
  <2>3. k.pc \notin {"success", "mint"}
    BY DEF Idle
  <2> QED
    BY <1>5, <2>1, <2>2, <2>3
<1>13. ASSUME NEW d \in Calls, NEW l \in Links, BeginReset(d, l) PROVE calls'[c] = calls[c]
  <2> DEFINE k == [Idle EXCEPT !.pc = "owner", !.link = l]
  <2>1. k \in Call /\ k.pc = "owner"
    BY IdleIsSound DEF Call, Step, Idle
  <2>2. Begins(d, k)
    BY <1>13 DEF BeginReset
  <2> HIDE DEF k
  <2> QED
    BY <1>5, <2>1, <2>2
<1>14. ASSUME NEW d \in Calls, NEW next \in Status, BeginStatus(d, next) PROVE calls'[c] = calls[c]
  <2> DEFINE k == [Idle EXCEPT !.pc = "status", !.next = next]
  <2>1. k \in Call /\ k.pc = "status"
    BY IdleIsSound DEF Call, Step, Idle
  <2>2. Begins(d, k)
    BY <1>14 DEF BeginStatus
  <2> HIDE DEF k
  <2> QED
    BY <1>5, <2>1, <2>2
<1>15. ASSUME NEW d \in Calls, BeginDelete(d) PROVE calls'[c] = calls[c]
  <2> DEFINE k == [Idle EXCEPT !.pc = "erase"]
  <2>1. k \in Call /\ k.pc = "erase"
    BY IdleIsSound DEF Call, Step, Idle
  <2>2. Begins(d, k)
    BY <1>15 DEF BeginDelete
  <2> HIDE DEF k
  <2> QED
    BY <1>5, <2>1, <2>2
<1>16. ASSUME NEW d \in Calls, NEW s \in Sessions, Mint(d, s) PROVE calls'[c] = calls[c]
  BY <1>0, <1>16 DEF Mint, Call
<1>17. ASSUME NEW d \in Calls, SpendLinks(d) \/ ResetReadsUser(d) \/ BurnLink(d)
       PROVE  calls'[c] = calls[c]
  BY <1>2, <1>3, <1>17 DEF SpendLinks, ResetReadsUser, BurnLink
<1>18. ASSUME NEW d \in Calls, SetPasswordHash(d) \/ WriteStatus(d) PROVE calls'[c] = calls[c]
  BY <1>2, <1>4, <1>18 DEF SetPasswordHash, WriteStatus
<1>19. ASSUME NEW d \in Calls, \/ RecordFailedLogin(d) \/ Rotate(d) \/ Logout(d)
                               \/ EraseUser(d) \/ Purge(d) \/ Dies(d)
                               \/ \E l \in Links : CreateLink(d, l)
       PROVE  calls'[c] = calls[c]
  BY <1>2, <1>19 DEF RecordFailedLogin, Rotate, Logout, EraseUser, Purge, Dies, CreateLink
<1>20. ASSUME Time \/ UNCHANGED vars PROVE calls'[c] = calls[c]
  BY <1>20 DEF Time, LockExpires, SessionExpires, SessionSwept, LinkExpires, vars
<1>21. ASSUME NEW d \in Calls, SignsIn(d)
       PROVE  \/ calls'[c] = calls[c] \/ ~Barred'
              \/ calls[c].pc = "success" /\ calls'[c].began = calls[c].began
  BY <1>6, <1>7, <1>8, <1>9, <1>19, <1>21 DEF SignsIn
<1>22. ASSUME NEW d \in Calls, Rotates(d) PROVE calls'[c] = calls[c] \/ ~Barred'
  BY <1>10, <1>11, <1>19, <1>22 DEF Rotates
<1>23. ASSUME NEW d \in Calls, SetsPassword(d) PROVE calls'[c] = calls[c]
  BY <1>12, <1>13, <1>17, <1>18, <1>19, <1>23 DEF SetsPassword
<1>24. ASSUME NEW d \in Calls, Moderates(d) PROVE calls'[c] = calls[c]
  BY <1>14, <1>15, <1>18, <1>19, <1>24 DEF Moderates
<1> QED
  BY <1>1, <1>16, <1>19, <1>20, <1>21, <1>22, <1>23, <1>24 DEF Next

LEMMA BarEffect ==
    ASSUME TypeOK, AllSound, [Next]_vars
    PROVE  \/ barredAt' = 0
           \/ /\ barredAt' = barredAt /\ purges' = purges
              /\ Barred' => Barred
           \/ /\ barredAt' = (IF barredAt = 0 THEN purges + 1 ELSE barredAt)
              /\ user' = user
              /\ \A s \in Sessions : sessions'[s].state # "live"
<1> USE DEF history, spent
<1>0. user \in User /\ sessions \in [Sessions -> Session]
  BY DEF TypeOK
<1>1. CASE user' = user /\ barredAt' = barredAt /\ purges' = purges
  BY <1>1 DEF Barred
<1>2. ASSUME NEW reason, RevokeAll(reason), user' = user
      PROVE  /\ barredAt' = (IF barredAt = 0 THEN purges + 1 ELSE barredAt)
             /\ \A s \in Sessions : sessions'[s].state # "live"
  <2>1. ASSUME NEW s \in Sessions PROVE sessions'[s].state # "live"
    <3>1. sessions[s] \in Session
      BY <1>0
    <3>2. CASE sessions[s].state = "live"
      <4>1. sessions'[s] = [sessions[s] EXCEPT !.state = "revoked", !.reason = reason]
        BY <1>2, <3>2 DEF RevokeAll
      <4> QED
        BY <3>1, <4>1 DEF Session
    <3>3. CASE sessions[s].state # "live"
      BY <1>2, <3>3 DEF RevokeAll
    <3> QED
      BY <3>2, <3>3
  <2> QED
    BY <1>2, <2>1 DEF RevokeAll
<1>3. ASSUME NEW c \in Calls, Purge(c)
      PROVE  /\ barredAt' = (IF barredAt = 0 THEN purges + 1 ELSE barredAt) /\ user' = user
             /\ \A s \in Sessions : sessions'[s].state # "live"
  BY <1>2, <1>3 DEF Purge
<1>4. ASSUME NEW c \in Calls, BeginDelete(c)
      PROVE  /\ barredAt' = (IF barredAt = 0 THEN purges + 1 ELSE barredAt) /\ user' = user
             /\ \A s \in Sessions : sessions'[s].state # "live"
  BY <1>2, <1>4 DEF BeginDelete
<1>5. ASSUME NEW c \in Calls, WriteStatus(c)
      PROVE  \/ barredAt' = 0
             \/ user' = user /\ barredAt' = barredAt /\ purges' = purges
  BY <1>5 DEF WriteStatus
<1>6. ASSUME NEW c \in Calls, Register(c) \/ EraseUser(c)
      PROVE  barredAt' = barredAt /\ purges' = purges /\ (Barred' => Barred)
  BY <1>0, <1>6 DEF Register, EraseUser, Barred, User
<1>7. ASSUME NEW c \in Calls, RecordFailedLogin(c)
      PROVE  barredAt' = barredAt /\ purges' = purges /\ (Barred' => Barred)
  <2>1. user'.status = user.status
    BY <1>0, <1>7 DEF RecordFailedLogin, User
  <2> QED
    BY <1>7, <2>1 DEF RecordFailedLogin, Barred
<1>8. ASSUME NEW c \in Calls, RecordSuccessfulLogin(c)
      PROVE  barredAt' = barredAt /\ purges' = purges /\ (Barred' => Barred)
  <2>1. user'.status = user.status
    BY <1>0, <1>8 DEF RecordSuccessfulLogin, User
  <2> QED
    BY <1>8, <2>1 DEF RecordSuccessfulLogin, Barred
<1>9. ASSUME LockExpires
      PROVE  barredAt' = barredAt /\ purges' = purges /\ (Barred' => Barred)
  <2>1. user'.status = user.status
    BY <1>0, <1>9 DEF LockExpires, User
  <2> QED
    BY <1>9, <2>1 DEF LockExpires, Barred
<1>10. ASSUME NEW c \in Calls, BeginRegister(c) \/ BeginLogin(c)
       PROVE  user' = user /\ barredAt' = barredAt /\ purges' = purges
  BY <1>10 DEF BeginRegister, BeginLogin
<1>11. ASSUME NEW c \in Calls, Rotates(c)
       PROVE  user' = user /\ barredAt' = barredAt /\ purges' = purges
  BY <1>11 DEF Rotates, BeginRefresh, BeginLogout, RefreshReadsUser, Rotate, Logout
<1>12. ASSUME NEW c \in Calls, SetsPassword(c)
       PROVE  user' = user /\ barredAt' = barredAt /\ purges' = purges
  BY <1>12 DEF SetsPassword, BeginChangePassword, BeginForgot, SpendLinks, CreateLink,
               BeginReset, ResetReadsUser, BurnLink, SetPasswordHash
<1>13. ASSUME NEW c \in Calls, \/ \E next \in Status : BeginStatus(c, next)
                               \/ Dies(c) \/ \E s \in Sessions : Mint(c, s)
       PROVE  user' = user /\ barredAt' = barredAt /\ purges' = purges
  BY <1>13 DEF BeginStatus, Dies, Mint
<1>14. ASSUME \/ \E s \in Sessions : SessionExpires(s) \/ SessionSwept(s)
              \/ \E l \in Links : LinkExpires(l)
              \/ UNCHANGED vars
       PROVE  user' = user /\ barredAt' = barredAt /\ purges' = purges
  BY <1>14 DEF SessionExpires, SessionSwept, LinkExpires, vars
<1> QED
  BY <1>1, <1>3, <1>4, <1>5, <1>6, <1>7, <1>8, <1>9, <1>10, <1>11, <1>12, <1>13, <1>14
  DEF Next, SignsIn, Moderates, Time

(* A session is live only if it already was or has just been minted.       *)
LEMMA LiveSources ==
    ASSUME TypeOK, AllSound, [Next]_vars, NEW s \in Sessions, sessions'[s].state = "live"
    PROVE  \/ sessions[s].state = "live" /\ sessions'[s].began = sessions[s].began
           \/ \E c \in Calls : /\ calls[c].pc = "mint" /\ sessions'[s].began = calls[c].began
                               /\ user' = user /\ barredAt' = barredAt
<1>0. \A r \in Sessions : sessions[r] \in Session
  BY DEF TypeOK
<1>1. CASE sessions' = sessions
  BY <1>1
<1>2. ASSUME NEW r \in Sessions, Marks(r)
      PROVE  sessions[s].state = "live" /\ sessions'[s].began = sessions[s].began
  BY <1>0, <1>2 DEF Marks, Session, TypeOK
<1>3. ASSUME NEW r \in Sessions, NEW heir, NEW reason, EndsOne(r, heir, reason)
      PROVE  sessions[s].state = "live" /\ sessions'[s].began = sessions[s].began
  BY <1>0, <1>3 DEF EndsOne, Session, TypeOK
<1>4. ASSUME NEW reason, EndsAll(reason)
      PROVE  sessions[s].state = "live" /\ sessions'[s].began = sessions[s].began
  <2>1. CASE sessions[s].state = "live"
    <3>1. sessions'[s] = [sessions[s] EXCEPT !.state = "revoked", !.reason = reason]
      BY <1>4, <2>1 DEF EndsAll, RevokeAll
    <3> QED
      BY <1>0, <3>1 DEF Session
  <2>2. CASE sessions[s].state # "live"
    BY <1>4, <2>2 DEF EndsAll, RevokeAll
  <2> QED
    BY <2>1, <2>2
<1>5. ASSUME NEW c \in Calls, NEW r \in Sessions, Mint(c, r)
      PROVE  \/ sessions[s].state = "live" /\ sessions'[s].began = sessions[s].began
             \/ /\ calls[c].pc = "mint" /\ sessions'[s].began = calls[c].began
                /\ user' = user /\ barredAt' = barredAt
  <2>1. CASE r = s
    <3>1. sessions'[s] = [NoSession EXCEPT !.state = "live", !.parent = calls[c].session,
                                           !.began = calls[c].began, !.born = purges]
      BY <1>5, <2>1 DEF Mint, TypeOK
    <3>2. sessions'[s].began = calls[c].began
      BY <3>1 DEF NoSession
    <3> QED
      BY <1>5, <3>2 DEF Mint, history
  <2>2. CASE r # s
    BY <1>5, <2>2 DEF Mint, TypeOK
  <2> QED
    BY <2>1, <2>2
<1> QED
  BY <1>1, <1>2, <1>3, <1>4, <1>5, SessionsEffect

LEMMA BarredStep ==
    ASSUME TypeOK, AllSound, Guarded, BarredStaysOut, [Next]_vars
    PROVE  Guarded' /\ BarredStaysOut'
<1>0. /\ barredAt \in Nat /\ purges \in Nat /\ barredAt <= purges
      /\ \A c \in Calls : calls[c].began \in Nat /\ calls[c].began <= purges
  BY DEF TypeOK, Call, AllSound, Sound
<1>1. CASE barredAt' = 0
  BY <1>1 DEF Guarded, BarredStaysOut
<1>2. CASE ~Barred'
  BY <1>2 DEF Guarded, BarredStaysOut, Barred
<1>3. CASE Barred' /\ barredAt' = barredAt /\ Barred /\ barredAt > 0
  <2>1. ASSUME NEW c \in Calls, calls'[c].pc \in {"success", "mint"}
        PROVE  calls'[c].began < barredAt'
    BY <1>3, <2>1, MintSources DEF Guarded
  <2>2. ASSUME NEW s \in Sessions, sessions'[s].state = "live"
        PROVE  sessions'[s].began < barredAt'
    BY <1>3, <2>2, LiveSources DEF Guarded, BarredStaysOut
  <2> QED
    BY <2>1, <2>2 DEF Guarded, BarredStaysOut
<1>4. CASE Barred' /\ barredAt = 0 /\ barredAt' = purges + 1
           /\ \A s \in Sessions : sessions'[s].state # "live"
  <2>1. ASSUME NEW c \in Calls, calls'[c].pc \in {"success", "mint"}
        PROVE  calls'[c].began < barredAt'
    <3>1. calls'[c].began = calls[c].began
      BY <1>4, <2>1, MintSources
    <3> QED
      BY <1>0, <1>4, <3>1
  <2> QED
    BY <1>4, <2>1 DEF Guarded, BarredStaysOut
<1>5. CASE barredAt' = barredAt /\ barredAt = 0
  BY <1>1, <1>5
<1> QED
  BY <1>0, <1>1, <1>2, <1>3, <1>4, <1>5, BarEffect DEF Barred

-------------------------------------------------------------------------------
(* The theorems.                                                           *)

IInv == AllSound /\ AllKept /\ Earned /\ UsedIsBurnt /\ Guarded /\ BarredStaysOut

LEMMA InitInv == Init => TypeOK /\ IInv
<1> SUFFICES ASSUME Init PROVE TypeOK /\ IInv
  OBVIOUS
<1> USE SessionsAssumption DEF Init
<1>1. NoSession \in Session /\ Idle \in Call
  BY DEF NoSession, Session, Idle, Call, Step, Status
<1>2. TypeOK
  BY <1>1 DEF TypeOK, User, Status, Link
<1>3. AllSound
  <2> SUFFICES ASSUME NEW c \in Calls PROVE Sound(calls[c])
    BY DEF AllSound
  <2>1. calls[c] = Idle
    OBVIOUS
  <2> QED
    BY <1>2, <2>1, IdleIsSound
<1>4. AllKept
  <2> SUFFICES ASSUME NEW s \in Sessions PROVE Kept(s)
    BY DEF AllKept
  <2>1. sessions[s] = NoSession
    OBVIOUS
  <2> QED
    BY <2>1 DEF Kept, NoSession
<1>5. Earned /\ UsedIsBurnt /\ Guarded /\ BarredStaysOut
  BY DEF Earned, LockWasEarned, UsedIsBurnt, Guarded, BarredStaysOut
<1> QED
  BY <1>2, <1>3, <1>4, <1>5 DEF IInv

LEMMA InvStep == TypeOK /\ IInv /\ [Next]_vars => TypeOK' /\ IInv'
<1> SUFFICES ASSUME TypeOK, IInv, [Next]_vars PROVE TypeOK' /\ IInv'
  OBVIOUS
<1> USE DEF IInv
<1>1. TypeOK'
  BY TypeStep
<1>2. user.failures <= failed
  BY DEF Earned
<1> QED
  BY <1>1, <1>2, KeptStep, SoundStep, EarnedStep, BurntStep, BarredStep

(* Documents and calls keep their shapes, what a call relies on is true,   *)
(* and so is every session's record.                                       *)
THEOREM Correct == Spec => [](TypeOK /\ IInv)
<1> QED
  BY InitInv, InvStep, PTL DEF Spec

(* Every document and every call has its declared shape.                   *)
THEOREM TypeCorrect == Spec => []TypeOK
BY Correct, PTL

(* Revoking everything ends every line of sessions, but for the calls that *)
(* were under way.                                                         *)
THEOREM RevokingEndsLines == Spec => []NoLineOutlives
<1>1. TypeOK /\ IInv => NoLineOutlives
  BY DEF IInv, AllKept, Kept, NoLineOutlives
<1> QED
  BY <1>1, Correct, PTL

(* A barred account is left no session by a call that began after its      *)
(* sessions were revoked.                                                  *)
THEOREM BarredGainsNothing == Spec => []BarredStaysOut
<1>1. TypeOK /\ IInv => BarredStaysOut
  BY DEF IInv
<1> QED
  BY <1>1, Correct, PTL

(* Theft is assumed only when a replaced token was presented twice.        *)
THEOREM AlarmsAreTrue == Spec => []NoFalseAlarm
<1>1. TypeOK /\ IInv => NoFalseAlarm
  BY DEF IInv, AllKept, Kept, Replay, NoFalseAlarm
<1> QED
  BY <1>1, Correct, PTL

(* The rotation chain: a rotated session has an heir minted from it.       *)
THEOREM RotationIsAudited == Spec => []ChainHolds
<1>1. TypeOK /\ IInv => ChainHolds
  BY DEF IInv, AllKept, Kept, ChainHolds
<1> QED
  BY <1>1, Correct, PTL

(* A reset link that set a password is used up.                            *)
THEOREM LinksAreBurnt == Spec => []UsedIsBurnt
<1>1. TypeOK /\ IInv => UsedIsBurnt
  BY DEF IInv
<1> QED
  BY <1>1, Correct, PTL

(* No account is locked before enough wrong passwords were recorded.       *)
THEOREM LocksAreEarned == Spec => []LockWasEarned
<1>1. TypeOK /\ IInv => LockWasEarned
  BY DEF IInv, Earned
<1> QED
  BY <1>1, Correct, PTL

(* What ended a session is never rewritten, whichever calls race.          *)
THEOREM EndsAreFinal == Spec => EndsOnce
<1>1. TypeOK /\ IInv /\ [Next]_vars =>
         [\A s \in Sessions :
            sessions[s].state = "revoked" =>
              sessions'[s].state # "live" /\ sessions'[s].reason = sessions[s].reason]_vars
  <2> SUFFICES ASSUME TypeOK, IInv, [Next]_vars, NEW s \in Sessions,
                      sessions[s].state = "revoked"
               PROVE  sessions'[s].state # "live" /\ sessions'[s].reason = sessions[s].reason
    OBVIOUS
  <2>0. AllSound /\ \A r \in Sessions : sessions[r] \in Session
    BY DEF IInv, TypeOK
  <2>1. CASE sessions' = sessions
    BY <2>1
  <2>2. ASSUME NEW r \in Sessions, Marks(r)
        PROVE  sessions'[s].state # "live" /\ sessions'[s].reason = sessions[s].reason
    BY <2>0, <2>2 DEF Marks, Session, TypeOK
  <2>3. ASSUME NEW r \in Sessions, NEW heir, NEW reason, EndsOne(r, heir, reason)
        PROVE  sessions'[s] = sessions[s]
    BY <2>3 DEF EndsOne, TypeOK
  <2>4. ASSUME NEW reason, EndsAll(reason) PROVE sessions'[s] = sessions[s]
    BY <2>4 DEF EndsAll, RevokeAll
  <2>5. ASSUME NEW c \in Calls, NEW r \in Sessions, Mint(c, r) PROVE sessions'[s] = sessions[s]
    BY <2>5 DEF Mint, Fresh, TypeOK
  <2> QED
    BY <2>0, <2>1, <2>2, <2>3, <2>4, <2>5, SessionsEffect
<1> QED
  BY <1>1, Correct, PTL DEF Spec, EndsOnce
===============================================================================
