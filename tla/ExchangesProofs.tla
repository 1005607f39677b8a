----------------------------- MODULE ExchangesProofs --------------------------
(***************************************************************************)
(* What holds of every decision, whatever the recipes, the kitchen, the    *)
(* tuning and the model's reply; of the staff console and the sessions of  *)
(* a colleague; of an ask session; of the receipts of a chat; and of how   *)
(* often a person is nudged.                                               *)
(***************************************************************************)
EXTENDS Exchanges, FiniteSetTheorems, SequenceTheorems, WellFoundedInduction, TLAPS

-------------------------------------------------------------------------------
(* The ranker.                                                             *)

\* A mood takes time away, and leaves 35 minutes if there were as many.
LEMMA CeilingBounds ==
    ASSUME NEW mood, NEW minutes \in {15, 40, 90}
    PROVE  /\ CeilingFor(mood, minutes) \in Int
           /\ CeilingFor(mood, minutes) <= minutes
           /\ Least(minutes, 35) <= CeilingFor(mood, minutes)
<1>1. Shortened(mood, minutes) \in Int
  BY DEF Shortened
<1> QED
  BY <1>1 DEF CeilingFor, Least, Most

\* What is ranked is in the catalogue, and uses something of what they have told.
LEMMA UsableUses ==
    ASSUME NEW q
    PROVE  /\ Usable(q) \subseteq Meals
           /\ Told(q) => \A m \in Usable(q) : Have(catalogue[m], q.kitchen) # {}
BY DEF Usable, WithSomeMatch, PoolOf, Narrowed

\* The shortlist is taken from what is ranked.
LEMMA FirstOfUsable ==
    ASSUME NEW n, NEW q, NEW rank, NEW kept \in Collapsed(Usable(q), rank)
    PROVE  First(n, q, rank, kept) \subseteq Usable(q)
<1>1. kept \subseteq Usable(q)
  BY DEF Collapsed
<1> QED
  BY <1>1 DEF First

\* The clock is dropped only when nothing that keeps to it is of use.
LEMMA ClockDropped ==
    ASSUME NEW q, IsRequest(q), q.mode = "cook", catalogue \in [Meals -> Recipes],
           NEW late \in Usable(q), catalogue[late].cook > q.minutes,
           NEW m \in Meals, catalogue[m].published, m \notin q.rejected,
           q.weight \in catalogue[m].weights, catalogue[m].cook <= Least(q.minutes, 35)
    PROVE  Have(catalogue[m], q.kitchen) = {}
<1>1. \A k \in Meals : catalogue[k].cook \in Nat
  BY DecideAssumption DEF IsRecipe
<1>2. q.minutes \in {15, 40, 90}
  BY DEF IsRequest
<1>3. /\ CeilingFor(q.mood, q.minutes) \in Int
      /\ CeilingFor(q.mood, q.minutes) <= q.minutes
      /\ Least(q.minutes, 35) <= CeilingFor(q.mood, q.minutes)
  BY <1>2, CeilingBounds
<1>4. Least(q.minutes, 35) \in Int
  BY <1>2 DEF Least
<1>5. late \in Meals
  BY UsableUses
<1>6. ~(catalogue[late].cook <= CeilingFor(q.mood, q.minutes))
  BY <1>1, <1>2, <1>3, <1>5
<1>7. late \notin PoolOf(q, FALSE)
  BY <1>6 DEF PoolOf, Narrowed
<1>8. Told(q) /\ WithSomeMatch(q, PoolOf(q, FALSE)) = {}
  BY <1>7 DEF Usable, WithSomeMatch
<1>9. catalogue[m].cook <= CeilingFor(q.mood, q.minutes)
  BY <1>1, <1>3, <1>4
<1>10. m \in PoolOf(q, FALSE)
  BY <1>9 DEF PoolOf, Narrowed
<1> QED
  BY <1>8, <1>10 DEF WithSomeMatch

-------------------------------------------------------------------------------
(* The decision.                                                           *)

\* What is on the shortlist was ranked for this request, and the answer comes last.
Course ==
    /\ phase \in {"asked", "kitchen"} => shortlist = {}
    /\ shortlist \subseteq Usable(request)
    /\ phase # "answered" => answer = NoAnswer

LEMMA RequestFilled ==
    ASSUME TypeOK, ReadKitchen
    PROVE  IsRequest(request')
<1>1. stock \in SUBSET Things /\ IsRequest(request)
  BY DEF TypeOK
<1>2. \/ request' = [request EXCEPT !.kitchen = {}, !.skipped = TRUE]
      \/ request' = [request EXCEPT !.kitchen = stock]
      \/ request' = request
  BY DEF ReadKitchen
<1>3. CASE request' = [request EXCEPT !.kitchen = {}, !.skipped = TRUE]
  BY <1>1, <1>3 DEF IsRequest
<1>4. CASE request' = [request EXCEPT !.kitchen = stock]
  BY <1>1, <1>4 DEF IsRequest
<1> QED
  BY <1>1, <1>2, <1>3, <1>4

\* An answer around the model's choice, or around none.
LEMMA Responds ==
    ASSUME NEW chosen, TypeOK, Course, phase = "framing", Respond(chosen),
           chosen \in Leads(ForModel) \cup {NoMeal}
    PROVE  /\ phase' = "answered"
           /\ answer'.meal \in Meals /\ answer'.pool \subseteq Meals
           /\ answer'.why # NoMeal => answer'.why = answer'.meal /\ answer'.meal \in Leads(ForModel)
           /\ (\A m \in Leads(1) : NeedsNothing(m)) => NeedsNothing(answer'.meal)
<1>1. Leads(1) \subseteq Meals /\ Leads(ForModel) \subseteq Meals /\ NoMeal \notin Meals
  BY DecideAssumption DEF Leads, First, TypeOK
<1>2. PICK leader \in Leads(1) :
        LET refused == chosen # NoMeal /\ RefusesPromotion(leader, chosen)
            winner == IF chosen = NoMeal \/ refused THEN leader ELSE chosen
        IN  /\ answer' = [meal |-> winner, why |-> IF refused THEN NoMeal ELSE chosen,
                          framing |-> chosen,
                          provenance |-> IF chosen # NoMeal THEN "ai_framed" ELSE "deterministic",
                          pool |-> shortlist \ {winner}]
            /\ phase' = "answered"
  BY DEF Respond
<1>3. CASE chosen = NoMeal
  BY <1>1, <1>2, <1>3 DEF TypeOK
<1>4. CASE chosen # NoMeal /\ RefusesPromotion(leader, chosen)
  BY <1>1, <1>2, <1>4 DEF TypeOK
<1>5. CASE chosen # NoMeal /\ ~RefusesPromotion(leader, chosen)
  BY <1>1, <1>2, <1>5 DEF TypeOK, RefusesPromotion
<1> QED
  BY <1>3, <1>4, <1>5

LEMMA TypedStep == TypeOK /\ Course /\ [Next]_vars => TypeOK'
<1> SUFFICES ASSUME TypeOK, Course, [Next]_vars PROVE TypeOK'
  OBVIOUS
<1>1. CASE ReadKitchen
  BY <1>1, RequestFilled DEF ReadKitchen, TypeOK
<1>2. CASE RankThem
  <2>1. shortlist' \subseteq Meals
    <3>1. PICK rank : \E kept \in Collapsed(Usable(request), rank) :
            shortlist' = First(PoolSize, request, rank, kept)
      BY <1>2 DEF RankThem
    <3>2. PICK kept \in Collapsed(Usable(request), rank) :
            shortlist' = First(PoolSize, request, rank, kept)
      BY <3>1
    <3> QED
      BY <3>2, FirstOfUsable, UsableUses
  <2>2. UNCHANGED <<catalogue, stock, request, answer>> /\ tries' \in {0, 1}
        /\ phase' \in {"answered", "framing"}
    BY <1>2 DEF RankThem
  <2> QED
    BY <2>1, <2>2 DEF TypeOK
<1>3. CASE ModelChooses \/ ModelGivesNothing
  <2>1. PICK chosen \in Leads(ForModel) \cup {NoMeal} : Respond(chosen)
    BY <1>3 DEF ModelChooses, ModelGivesNothing
  <2>2. /\ phase = "framing"
        /\ UNCHANGED <<catalogue, stock, request, shortlist, ranks, tries>>
    BY <1>3 DEF ModelChooses, ModelGivesNothing
  <2> QED
    BY <2>1, <2>2, Responds DEF TypeOK
<1>4. CASE ModelMisfits
  BY <1>4 DEF ModelMisfits, TypeOK
<1>5. CASE UNCHANGED vars
  BY <1>5 DEF vars, TypeOK
<1> QED
  BY <1>1, <1>2, <1>3, <1>4, <1>5 DEF Next

LEMMA SameUsable ==
    ASSUME UNCHANGED <<catalogue, request>>
    PROVE  Usable(request)' = Usable(request)
<1>1. \A relaxed \in BOOLEAN : PoolOf(request, relaxed)' = PoolOf(request, relaxed)
  BY DEF PoolOf, Narrowed
<1>2. Told(request)' = Told(request)
  BY DEF Told
<1> QED
  BY <1>1, <1>2 DEF Usable, WithSomeMatch

LEMMA CourseKept == TypeOK /\ Course /\ [Next]_vars => Course'
<1> SUFFICES ASSUME TypeOK, Course, [Next]_vars PROVE Course'
  OBVIOUS
<1>1. CASE ReadKitchen
  BY <1>1 DEF ReadKitchen, Course
<1>2. CASE RankThem
  <2>1. PICK rank : \E kept \in Collapsed(Usable(request), rank) :
          shortlist' = First(PoolSize, request, rank, kept)
    BY <1>2 DEF RankThem
  <2>2. shortlist' \subseteq Usable(request)
    BY <2>1, FirstOfUsable
  <2>3. UNCHANGED <<catalogue, request, answer>> /\ phase' \in {"answered", "framing"}
    BY <1>2 DEF RankThem
  <2>4. phase = "kitchen"
    BY <1>2 DEF RankThem
  <2> QED
    BY <2>2, <2>3, <2>4, SameUsable DEF Course
<1>3. CASE ModelChooses \/ ModelGivesNothing
  <2>1. PICK chosen \in Leads(ForModel) \cup {NoMeal} : Respond(chosen)
    BY <1>3 DEF ModelChooses, ModelGivesNothing
  <2>2. phase = "framing" /\ UNCHANGED <<catalogue, request, shortlist>>
    BY <1>3 DEF ModelChooses, ModelGivesNothing
  <2>3. phase' = "answered"
    BY <2>1, <2>2, Responds
  <2> QED
    BY <2>2, <2>3, SameUsable DEF Course
<1>4. CASE ModelMisfits
  BY <1>4, SameUsable DEF ModelMisfits, Course
<1>5. CASE UNCHANGED vars
  BY <1>5, SameUsable DEF vars, Course
<1> QED
  BY <1>1, <1>2, <1>3, <1>4, <1>5 DEF Next

LEMMA Started == Init => TypeOK /\ Course
<1> SUFFICES ASSUME Init PROVE TypeOK /\ Course
  OBVIOUS
<1>1. IsRequest(request)
  BY DecideAssumption DEF Init
<1> QED
  BY <1>1 DEF Init, TypeOK, Course, NoAnswer

LEMMA Coursed == Spec => [](TypeOK /\ Course)
<1>1. TypeOK /\ Course /\ [Next]_vars => (TypeOK /\ Course)'
  BY TypedStep, CourseKept
<1> QED
  BY <1>1, Started, PTL DEF Spec

\* Every variable keeps its type.
THEOREM DecisionTyped == Spec => []TypeOK
BY Coursed, PTL

\* Whoever told what they have is offered nothing that uses none of it, by whichever fallback.
THEOREM NothingForNothing == Spec => []UsesWhatTheyHave
<1>1. Course => UsesWhatTheyHave
  BY UsableUses DEF Course, UsesWhatTheyHave, Offered, Uses
<1> QED
  BY <1>1, Coursed, PTL

\* A meal over the time they have is offered only when none well within it uses what they have.
THEOREM ClockIsTheObstacle == Spec => []OverrunsAlone
<1>1. TypeOK /\ Course => OverrunsAlone
  <2> SUFFICES ASSUME TypeOK, Course, request.mode = "cook",
                      NEW late \in Offered, ~InTime(late),
                      NEW m \in Meals, catalogue[m].published, m \notin request.rejected,
                      request.weight \in catalogue[m].weights,
                      catalogue[m].cook <= Least(request.minutes, 35)
               PROVE  ~Uses(m)
    BY DEF OverrunsAlone
  <2>1. late \in Usable(request) /\ late \in Meals
    BY UsableUses DEF Course, Offered
  <2>2. catalogue[late].cook \in Nat
    BY <2>1, DecideAssumption DEF TypeOK, IsRecipe
  <2>3. request.minutes \in {15, 40, 90}
    BY DEF TypeOK, IsRequest
  <2>4. catalogue[late].cook > request.minutes
    BY <2>2, <2>3 DEF InTime
  <2> QED
    BY <2>1, <2>4, ClockDropped DEF TypeOK, Uses
<1> QED
  BY <1>1, Coursed, PTL

\* The model's sentence is never shown under another meal than the one it was written about.
THEOREM SentenceAlwaysFits == Spec => []SentenceFits
<1>1. Init => SentenceFits
  BY DEF Init, NoAnswer, SentenceFits
<1>2. TypeOK /\ Course /\ SentenceFits /\ [Next]_vars => SentenceFits'
  <2> SUFFICES ASSUME TypeOK, Course, SentenceFits, [Next]_vars PROVE SentenceFits'
    OBVIOUS
  <2>1. CASE ReadKitchen \/ RankThem \/ ModelMisfits
    BY <2>1 DEF ReadKitchen, RankThem, ModelMisfits, SentenceFits, Course, NoAnswer
  <2>2. CASE ModelChooses \/ ModelGivesNothing
    <3>1. PICK chosen \in Leads(ForModel) \cup {NoMeal} : Respond(chosen)
      BY <2>2 DEF ModelChooses, ModelGivesNothing
    <3>2. phase = "framing" /\ UNCHANGED <<catalogue, request, shortlist, ranks>>
      BY <2>2 DEF ModelChooses, ModelGivesNothing
    <3>3. Leads(ForModel)' = Leads(ForModel)
      BY <3>2 DEF Leads, First, Before, Missing, Found
    <3>4. answer'.why # NoMeal => answer'.why = answer'.meal /\ answer'.meal \in Leads(ForModel)
      BY <3>1, <3>2, Responds
    <3> QED
      BY <3>3, <3>4 DEF SentenceFits
  <2>3. CASE UNCHANGED vars
    BY <2>3 DEF vars, SentenceFits, Leads, First, Before, Missing, Found
  <2> QED
    BY <2>1, <2>2, <2>3 DEF Next
<1> QED
  BY <1>1, <1>2, Coursed, PTL DEF Spec

\* Nobody who could cook the best of the list at once is sent to the market instead.
THEOREM DinnerStays == Spec => []ReadyStays
<1>1. Init => ReadyStays
  BY DEF Init, NoAnswer, ReadyStays
<1>2. TypeOK /\ Course /\ ReadyStays /\ [Next]_vars => ReadyStays'
  <2> SUFFICES ASSUME TypeOK, Course, ReadyStays, [Next]_vars PROVE ReadyStays'
    OBVIOUS
  <2>1. CASE ReadKitchen \/ RankThem \/ ModelMisfits
    BY <2>1 DEF ReadKitchen, RankThem, ModelMisfits, ReadyStays, Course, NoAnswer
  <2>2. CASE ModelChooses \/ ModelGivesNothing
    <3>1. PICK chosen \in Leads(ForModel) \cup {NoMeal} : Respond(chosen)
      BY <2>2 DEF ModelChooses, ModelGivesNothing
    <3>2. phase = "framing" /\ UNCHANGED <<catalogue, request, shortlist, ranks>>
      BY <2>2 DEF ModelChooses, ModelGivesNothing
    <3>3. Leads(1)' = Leads(1)
      BY <3>2 DEF Leads, First, Before, Missing, Found
    <3>5. (\A m \in Leads(1) : NeedsNothing(m)) => NeedsNothing(answer'.meal)
      BY <3>1, <3>2, Responds
    <3>6. SUFFICES ASSUME \A m \in Leads(1)' : NeedsNothing(m)'
                   PROVE  NeedsNothing(answer.meal)'
      BY DEF ReadyStays
    <3>7. \A m \in Leads(1) : NeedsNothing(m)
      BY <3>2, <3>3, <3>6 DEF NeedsNothing
    <3>8. NeedsNothing(answer'.meal)
      BY <3>5, <3>7
    <3> QED
      BY <3>2, <3>8 DEF NeedsNothing
  <2>3. CASE UNCHANGED vars
    <3>1. Leads(1)' = Leads(1)
      BY <2>3 DEF vars, Leads, First, Before
    <3> QED
      BY <2>3, <3>1 DEF vars, ReadyStays, NeedsNothing
  <2> QED
    BY <2>1, <2>2, <2>3 DEF Next
<1> QED
  BY <1>1, <1>2, Coursed, PTL DEF Spec
----------------------------------------------------------------------------
(* The sessions of a colleague.                                            *)

SignInIInv == U!TypeOK /\ \A s \in shut : sessions[s].revoked = TRUE

LEMMA SignInTypes ==
    /\ U!NoSession \in U!Session /\ U!NoSession.revoked = FALSE
    /\ U!Idle \in U!Call
    /\ \A s \in U!Session, n \in Nat : /\ [s EXCEPT !.token = n] \in U!Session
                                       /\ [s EXCEPT !.token = n].revoked = s.revoked
    /\ \A s \in U!Session : /\ [s EXCEPT !.revoked = TRUE] \in U!Session
                            /\ [s EXCEPT !.revoked = TRUE].revoked = TRUE
BY DEF U!NoSession, U!Session, U!Idle, U!Call, U!None

LEMMA SignInKept == SignInIInv /\ [U!Next]_(U!vars) => SignInIInv'
<1> SUFFICES ASSUME SignInIInv, [U!Next]_(U!vars) PROVE SignInIInv'
  OBVIOUS
<1> USE StaffSessionsAssumption DEF U!StaffSessionsAssumption
<1>0. /\ U!TypeOK /\ \A s \in shut : sessions[s].revoked = TRUE
      /\ active \in BOOLEAN /\ sessions \in [U!Sessions -> U!Session] /\ issued \in 0..NTokens
      /\ signIns \in [Calls -> U!Call] /\ changes \in 0..MaxChanges /\ shut \in SUBSET U!Sessions
  BY DEF SignInIInv, U!TypeOK
\* A call begins or goes on, and no session changes.
<1>1. ASSUME NEW c \in Calls, NEW call \in U!Call, signIns' = [signIns EXCEPT ![c] = call],
             active' \in BOOLEAN, changes' \in 0..MaxChanges, UNCHANGED <<sessions, issued, shut>>
      PROVE  SignInIInv'
  BY <1>0, <1>1 DEF SignInIInv, U!TypeOK
<1>2. ASSUME NEW c \in Calls, U!BeginLogin(c) \/ U!ReadColleague(c) \/ U!Fails(c)
      PROVE  SignInIInv'
  <2>1. PICK call \in U!Call : signIns' = [signIns EXCEPT ![c] = call]
    <3>1. [pc |-> "verify", session |-> U!None] \in U!Call
      BY DEF U!Call
    <3>2. signIns[c] \in U!Call /\ [signIns[c] EXCEPT !.pc = "rotate"] \in U!Call
      BY <1>0 DEF U!Call
    <3> QED
      BY <1>2, <3>1, <3>2, SignInTypes DEF U!BeginLogin, U!Begin, U!ReadColleague, U!Fails, U!Ends
  <2>2. UNCHANGED <<active, changes, sessions, issued, shut>>
    BY <1>2 DEF U!BeginLogin, U!ReadColleague, U!Fails
  <2> QED
    BY <1>0, <1>1, <2>1, <2>2
<1>3. ASSUME NEW c \in Calls, NEW s \in U!Sessions, U!BeginRefresh(c, s)
      PROVE  SignInIInv'
  <2>1. [pc |-> "staff", session |-> s] \in U!Call
    BY DEF U!Call
  <2> QED
    BY <1>0, <1>1, <1>3, <2>1 DEF U!BeginRefresh, U!Begin
<1>4. ASSUME NEW c \in Calls, NEW status \in {active, FALSE}, U!Decide(c, status)
      PROVE  SignInIInv'
  <2>1. [pc |-> "purge", session |-> U!None] \in U!Call
    BY DEF U!Call
  <2>2. status \in BOOLEAN /\ active' = status
    BY <1>0, <1>4 DEF U!Decide
  <2>3. active' \in BOOLEAN
    BY <2>2
  <2>4. changes' \in 0..MaxChanges /\ UNCHANGED <<sessions, issued, shut>>
        /\ signIns' = [signIns EXCEPT ![c] = [pc |-> "purge", session |-> U!None]]
    BY <1>0, <1>4 DEF U!Decide, U!Begin
  <2> QED
    BY <1>1, <2>1, <2>3, <2>4
\* Only the token of a session is written, or it is revoked.
<1>5. ASSUME signIns' \in [Calls -> U!Call], sessions' \in [U!Sessions -> U!Session],
             issued' \in 0..NTokens, UNCHANGED <<active, changes>>, shut' \in SUBSET U!Sessions,
             \A s \in U!Sessions : sessions[s].revoked = TRUE => sessions'[s].revoked = TRUE,
             \A s \in shut' \ shut : sessions'[s].revoked = TRUE
      PROVE  SignInIInv'
  BY <1>0, <1>5 DEF SignInIInv, U!TypeOK
<1>6. ASSUME NEW c \in Calls, U!OpenSession(c)
      PROVE  SignInIInv'
  <2>1. PICK s \in U!Sessions \ U!Opened : sessions' = [sessions EXCEPT ![s].token = issued + 1]
    BY <1>6 DEF U!OpenSession
  <2>2. /\ issued' = issued + 1 /\ issued < NTokens /\ UNCHANGED <<active, changes, shut>>
        /\ signIns' = [signIns EXCEPT ![c] = U!Idle]
    BY <1>6 DEF U!OpenSession, U!Issue, U!Ends
  <2>3. /\ sessions' \in [U!Sessions -> U!Session]
        /\ \A x \in U!Sessions : sessions'[x].revoked = sessions[x].revoked
    <3>1. sessions' = [sessions EXCEPT ![s] = [sessions[s] EXCEPT !.token = issued + 1]]
      BY <1>0, <2>1
    <3>2. issued + 1 \in Nat
      BY <1>0
    <3> QED
      BY <1>0, <3>1, <3>2, SignInTypes
  <2>4. signIns' \in [Calls -> U!Call] /\ issued' \in 0..NTokens
    BY <1>0, <2>2, SignInTypes
  <2> QED
    BY <1>0, <1>5, <2>2, <2>3, <2>4
<1>7. ASSUME NEW c \in Calls, U!Rotate(c)
      PROVE  SignInIInv'
  <2> DEFINE s == signIns[c].session
  <2>1. /\ issued' = issued + 1 /\ issued < NTokens /\ UNCHANGED <<active, changes, shut>>
        /\ signIns' = [signIns EXCEPT ![c] = U!Idle]
        /\ sessions' = [sessions EXCEPT ![s].token = issued + 1]
    BY <1>7 DEF U!Rotate, U!Issue, U!Ends
  <2>2. /\ sessions' \in [U!Sessions -> U!Session]
        /\ \A x \in U!Sessions : sessions'[x].revoked = sessions[x].revoked
    <3>1. CASE s \in U!Sessions
      <4>1. sessions' = [sessions EXCEPT ![s] = [sessions[s] EXCEPT !.token = issued + 1]]
        BY <1>0, <2>1
      <4>2. issued + 1 \in Nat /\ sessions[s] \in U!Session
        BY <1>0, <3>1
      <4>3. /\ [sessions[s] EXCEPT !.token = issued + 1] \in U!Session
            /\ [sessions[s] EXCEPT !.token = issued + 1].revoked = sessions[s].revoked
        BY <4>2, SignInTypes
      <4> QED
        BY <1>0, <3>1, <4>1, <4>3
    <3>2. CASE s \notin U!Sessions
      BY <1>0, <2>1, <3>2
    <3> QED
      BY <3>1, <3>2
  <2>4. signIns' \in [Calls -> U!Call] /\ issued' \in 0..NTokens
    BY <1>0, <2>1, SignInTypes
  <2> QED
    BY <1>0, <1>5, <2>1, <2>2, <2>4
\* What is ended is revoked.
<1>8. ASSUME NEW ended \in SUBSET U!Sessions, sessions' = U!Revoked(ended), shut' = shut \cup ended,
             signIns' \in [Calls -> U!Call], UNCHANGED <<active, issued, changes>>
      PROVE  SignInIInv'
  <2>1. sessions' = [s \in U!Sessions |-> IF s \in ended THEN [sessions[s] EXCEPT !.revoked = TRUE]
                                          ELSE sessions[s]]
    BY <1>8 DEF U!Revoked
  <2>2. /\ sessions' \in [U!Sessions -> U!Session]
        /\ \A x \in ended : sessions'[x].revoked = TRUE
        /\ \A x \in U!Sessions : sessions[x].revoked = TRUE => sessions'[x].revoked = TRUE
    BY <1>0, <2>1, SignInTypes
  <2> QED
    BY <1>0, <1>5, <1>8, <2>2
<1>9. ASSUME NEW s \in U!Sessions, U!Logout(s)
      PROVE  SignInIInv'
  BY <1>0, <1>8, <1>9 DEF U!Logout
<1>10. ASSUME NEW c \in Calls, U!Purge(c)
       PROVE  SignInIInv'
  <2>1. U!Open \in SUBSET U!Sessions
    BY DEF U!Open, U!Opened
  <2> QED
    BY <1>0, <1>8, <1>10, <2>1, SignInTypes DEF U!Purge, U!Ends
<1>11. CASE U!Readmit
  BY <1>0, <1>11 DEF U!Readmit, SignInIInv, U!TypeOK
<1>12. CASE UNCHANGED U!vars
  BY <1>0, <1>12 DEF U!vars, SignInIInv, U!TypeOK
<1> QED
  BY <1>2, <1>3, <1>4, <1>6, <1>7, <1>9, <1>10, <1>11, <1>12 DEF U!Next

\* A session that a sign-out or an administrator has ended stays ended, whatever refreshes of it were
\* under way and whoever is invited again (staff-auth.service.ts:191-259): what a refresh saves is the
\* token alone.
THEOREM EndedSessionsStayEnded == U!Spec => []ShutStaysShut
<1>1. U!Init => SignInIInv
  BY StaffSessionsAssumption, SignInTypes
  DEF U!StaffSessionsAssumption, U!Init, SignInIInv, U!TypeOK, U!Sessions
<1>2. SignInIInv => ShutStaysShut
  BY DEF SignInIInv, ShutStaysShut, U!ShutStaysShut, U!Open, U!Opened
<1> QED
  BY <1>1, <1>2, SignInKept, PTL DEF U!Spec

----------------------------------------------------------------------------
(* The ask session.                                                        *)

\* What an attempt has read of the notes is carried; where it no longer needs the recording, that is
\* gone; and it leaves the turn settled.
AskDeleted == {"silent", "parsing", "reading", "saving", "reporting", "returned", "succeeded", "cancelled"}
AskOver == {"reporting", "returned", "succeeded", "cancelled"}
Gone(t) == t \notin recordings \ undeleted
Kept(t) ==
    /\ jobs[t].seen \subseteq A!Carried
    /\ turns[t].notes \subseteq A!Carried
    /\ jobs[t].pc \in AskDeleted => Gone(t)
    /\ jobs[t].pc = "dropping" => turns[t].status = "failed"
    /\ jobs[t].pc \in AskOver => turns[t].status \in {"done", "failed"}
AskIInv == A!TypeOK /\ recordings \subseteq Spoken /\ \A t \in A!Turns : Kept(t)

\* Of the attempts a job has made since it was queued, all but the one under way were broken off: it is
\* given up after MaxAttempts of those.
Spent(t) ==
    /\ jobs[t].pc \in {"unqueued", "queued"} => jobs[t].attempts <= broken[t]
    /\ jobs[t].pc \in A!Working => jobs[t].attempts <= broken[t] + 1
    /\ jobs[t].pc = "failed" => MaxAttempts <= broken[t]
SpentInv == broken \in [A!Turns -> Nat] /\ \A t \in A!Turns : Spent(t)

LEMMA AskTypes ==
    /\ A!NoJob \in A!Job /\ A!NoJob.seen = {}
    /\ \A job \in A!Job, pc \in A!Working \cup A!Ended \cup {"none", "unqueued", "lost", "queued"} :
          /\ [job EXCEPT !.pc = pc] \in A!Job
          /\ [job EXCEPT !.pc = pc].pc = pc /\ [job EXCEPT !.pc = pc].seen = job.seen
          /\ [job EXCEPT !.pc = pc].attempts = job.attempts
BY DEF A!NoJob, A!Job, A!Ended

\* A job goes where it does, with the notes it had read; its turn keeps its notes.
LEMMA AskKeeps ==
    ASSUME AskIInv, NEW t \in A!Turns,
           NEW job \in A!Job, jobs' = [jobs EXCEPT ![t] = job], job.seen \subseteq A!Carried',
           NEW turn \in A!Turn, turns' = [turns EXCEPT ![t] = turn],
           turn.notes \subseteq A!Carried',
           A!Carried \subseteq A!Carried', carried' \in [Notes -> Nat],
           recordings' \in SUBSET Spoken, recordings' \ {t} = recordings \ {t},
           undeleted' \in SUBSET A!Turns, undeleted \subseteq undeleted',
           transcribed' \in SUBSET A!Turns, broken' \in [A!Turns -> Nat],
           UNCHANGED <<followUps, askCalls>>, askFaults' \in 0..MaxAskFaults,
           job.pc \in AskDeleted => Gone(t)',
           job.pc = "dropping" => turn.status = "failed",
           job.pc \in AskOver => turn.status \in {"done", "failed"}
    PROVE  AskIInv'
<1>0. A!TypeOK /\ recordings \subseteq Spoken /\ \A s \in A!Turns : Kept(s)
  BY DEF AskIInv
<1>1. A!TypeOK'
  BY <1>0 DEF A!TypeOK, A!Turns
<1>2. ASSUME NEW s \in A!Turns PROVE Kept(s)'
  <2>1. CASE s = t
    <3>1. jobs'[s] = job /\ turns'[s] = turn
      BY <1>0, <2>1 DEF A!TypeOK
    <3> QED
      BY <2>1, <3>1 DEF Kept
  <2>2. CASE s # t
    <3>1. /\ jobs'[s] = jobs[s] /\ turns'[s] = turns[s]
          /\ Gone(s) => Gone(s)'
      BY <1>0, <2>2 DEF A!TypeOK, Gone
    <3> QED
      BY <1>0, <3>1 DEF Kept
  <2> QED
    BY <2>1, <2>2
<1> QED
  BY <1>1, <1>2 DEF AskIInv

LEMMA AskKept == AskIInv /\ SpentInv' /\ [A!Next]_(A!vars) => AskIInv'
<1> SUFFICES ASSUME AskIInv, SpentInv', [A!Next]_(A!vars) PROVE AskIInv'
  OBVIOUS
<1> USE AskAssumption DEF A!AskAssumption
<1>0. /\ A!TypeOK /\ recordings \in SUBSET Spoken /\ \A t \in A!Turns : Kept(t)
      /\ turns \in [A!Turns -> A!Turn] /\ carried \in [Notes -> Nat]
      /\ jobs \in [A!Turns -> A!Job] /\ askFaults \in 0..MaxAskFaults
      /\ undeleted \in SUBSET A!Turns /\ transcribed \in SUBSET A!Turns
      /\ followUps \in Nat /\ askCalls \in [Calls -> {"idle", "asked"}]
      /\ broken' \in [A!Turns -> Nat]
  BY DEF AskIInv, SpentInv, A!TypeOK
<1>typed. \A t \in A!Turns : t \notin Spoken => Gone(t)
  BY <1>0 DEF Gone
\* Nothing but the job changes.
<1>1. ASSUME NEW t \in A!Turns, NEW job \in A!Job, jobs' = [jobs EXCEPT ![t] = job],
             job.seen \subseteq A!Carried,
             UNCHANGED <<turns, carried, followUps, recordings, askCalls>>,
             askFaults' \in 0..MaxAskFaults, transcribed' \in SUBSET A!Turns,
             undeleted' \in SUBSET A!Turns, undeleted \subseteq undeleted',
             job.pc \in AskDeleted => Gone(t)',
             job.pc = "dropping" => turns[t].status = "failed",
             job.pc \in AskOver => turns[t].status \in {"done", "failed"}
      PROVE  AskIInv'
  <2>1. turns' = [turns EXCEPT ![t] = turns[t]] /\ turns[t] \in A!Turn
        /\ turns[t].notes \subseteq A!Carried /\ A!Carried' = A!Carried
    BY <1>0, <1>1 DEF Kept, A!Carried
  <2> QED
    BY <1>0, <1>1, <2>1, AskKeeps DEF AskDeleted, AskOver
<1>2. ASSUME NEW t \in A!Turns, A!CreateTurn(t)
      PROVE  AskIInv'
  <2> DEFINE turn == [turns[t] EXCEPT !.status = "pending", !.text = (t \in Typed)]
  <2>1. turn \in A!Turn /\ turn.notes = turns[t].notes
    <3>1. turns[t] \in A!Turn /\ (t \in Typed) \in BOOLEAN
      BY <1>0
    <3> QED
      BY <3>1 DEF A!Turn
  <2>2. turns' = [turns EXCEPT ![t] = turn]
    BY <1>0, <1>2 DEF A!CreateTurn
  <2>3. /\ jobs' = [jobs EXCEPT ![t] = [A!NoJob EXCEPT !.pc = "unqueued"]]
        /\ UNCHANGED <<carried, followUps, askCalls, askFaults, transcribed, undeleted>>
        /\ recordings' \in SUBSET Spoken /\ recordings' \ {t} = recordings \ {t}
    BY <1>0, <1>2 DEF A!CreateTurn, A!history
  <2>4. /\ [A!NoJob EXCEPT !.pc = "unqueued"] \in A!Job
        /\ [A!NoJob EXCEPT !.pc = "unqueued"].pc = "unqueued"
        /\ [A!NoJob EXCEPT !.pc = "unqueued"].seen = {}
    BY AskTypes
  <2>5. turns[t].notes \subseteq A!Carried /\ A!Carried' = A!Carried
    BY <1>0, <2>3 DEF Kept, A!Carried
  <2> HIDE DEF turn
  <2> QED
    BY <1>0, <2>1, <2>2, <2>3, <2>4, <2>5, AskKeeps DEF AskDeleted, AskOver
\* A job goes on, in one of the ways that change nothing else.
<1>3. ASSUME NEW t \in A!Turns, NEW pc, A!Goes(t, pc),
             pc \in {"unqueued", "queued", "heard", "heardNothing", "unheard", "failed"},
             UNCHANGED <<turns, carried, followUps, recordings, askCalls, undeleted>>,
             askFaults' \in 0..MaxAskFaults, transcribed' \in SUBSET A!Turns
      PROVE  AskIInv'
  <2>1. /\ jobs' = [jobs EXCEPT ![t] = [jobs[t] EXCEPT !.pc = pc]]
        /\ [jobs[t] EXCEPT !.pc = pc] \in A!Job
        /\ [jobs[t] EXCEPT !.pc = pc].pc = pc /\ [jobs[t] EXCEPT !.pc = pc].seen = jobs[t].seen
    <3>1. /\ jobs[t] \in A!Job
          /\ pc \in A!Working \cup A!Ended \cup {"none", "unqueued", "lost", "queued"}
      BY <1>0, <1>3 DEF A!Working, A!Ended
    <3> QED
      BY <1>3, <3>1, AskTypes DEF A!Goes
  <2>2. jobs[t].seen \subseteq A!Carried
    BY <1>0 DEF Kept
  <2> DEFINE job == [jobs[t] EXCEPT !.pc = pc]
  <2> HIDE DEF job
  <2> QED
    BY <1>0, <1>1, <1>3, <2>1, <2>2 DEF job, AskDeleted, AskOver
<1>4. ASSUME NEW t \in A!Turns, \/ A!QueueTurn(t) \/ A!CannotTranscribe(t) \/ A!Throws(t)
                                \/ \E pc \in {"heard", "heardNothing"} : A!Transcribe(t, pc)
      PROVE  AskIInv'
  <2>1. CASE A!QueueTurn(t) \/ A!CannotTranscribe(t)
    BY <1>0, <1>3, <2>1 DEF A!QueueTurn, A!CannotTranscribe, A!session, A!history
  <2>2. CASE A!Throws(t)
    BY <1>0, <1>3, <2>2 DEF A!Throws, A!session, A!history
  <2>3. CASE \E pc \in {"heard", "heardNothing"} : A!Transcribe(t, pc)
    BY <1>0, <1>3, <2>3 DEF A!Transcribe, A!session
  <2> QED
    BY <1>4, <2>1, <2>2, <2>3
<1>5. ASSUME NEW t \in A!Turns, A!Claim(t)
      PROVE  AskIInv'
  <2> DEFINE job == [A!NoJob EXCEPT !.pc = IF t \in Spoken THEN "listening" ELSE A!WithText(t),
                                    !.attempts = jobs[t].attempts + 1]
  <2>1. job \in A!Job /\ job.seen = {}
        /\ job.pc \in {"listening", "parsing", "reading"} /\ (job.pc # "listening" => t \notin Spoken)
    <3>1. jobs[t].attempts + 1 \in Nat
      BY <1>0 DEF A!Job
    <3> QED
      BY <3>1 DEF A!NoJob, A!Job, A!Working, A!WithText
  <2>2. /\ jobs' = [jobs EXCEPT ![t] = job]
        /\ UNCHANGED <<turns, carried, followUps, recordings, askCalls, askFaults, transcribed,
                       undeleted>>
    BY <1>5 DEF A!Claim, A!session, A!history
  <2>3. t \notin Spoken => Gone(t)'
    BY <1>typed, <2>2 DEF Gone
  <2> HIDE DEF job
  <2> QED
    BY <1>0, <1>1, <2>1, <2>2, <2>3 DEF AskDeleted, AskOver
\* The turn fails, and the job goes on or ends.
<1>6. ASSUME NEW t \in A!Turns, A!SettleUnheard(t) \/ A!SettleSilent(t)
      PROVE  AskIInv'
  <2> DEFINE pc == IF A!SettleUnheard(t) THEN "dropping" ELSE "returned"
             turn == [turns[t] EXCEPT !.status = "failed"]
             job == [jobs[t] EXCEPT !.pc = pc]
  <2>1. turn \in A!Turn /\ turn.notes = turns[t].notes /\ turn.status = "failed"
    <3>1. turns[t] \in A!Turn
      BY <1>0
    <3> QED
      BY <3>1 DEF A!Turn
  <2>2. /\ job \in A!Job /\ job.seen = jobs[t].seen
        /\ job.pc \in {"dropping", "returned"} /\ (job.pc = "returned" => jobs[t].pc = "silent")
    <3>1. jobs[t] \in A!Job
      BY <1>0
    <3>2. ~A!SettleUnheard(t) => jobs[t].pc = "silent"
      BY <1>6 DEF A!SettleSilent
    <3>3. /\ pc \in {"dropping", "returned"} /\ (pc = "returned" => jobs[t].pc = "silent")
          /\ pc \in A!Working
      BY <3>2 DEF A!Working
    <3> HIDE DEF pc
    <3>4. job \in A!Job /\ job.pc = pc /\ job.seen = jobs[t].seen
      BY <3>1, <3>3, AskTypes
    <3> QED
      BY <3>3, <3>4
  <2>3. /\ jobs' = [jobs EXCEPT ![t] = job] /\ turns' = [turns EXCEPT ![t] = turn]
        /\ UNCHANGED <<carried, followUps, recordings, askCalls, askFaults, transcribed, undeleted>>
    <3>1. A!SettleUnheard(t) => ~A!SettleSilent(t)
      BY DEF A!SettleUnheard, A!SettleSilent
    <3> QED
      BY <1>0, <1>6, <3>1 DEF A!SettleUnheard, A!SettleSilent, A!Goes, A!history
  <2>4. /\ jobs[t].seen \subseteq A!Carried /\ turns[t].notes \subseteq A!Carried
        /\ A!Carried' = A!Carried
    BY <1>0, <2>3 DEF Kept, A!Carried
  <2>5. job.pc = "returned" => Gone(t)'
    BY <1>0, <2>2, <2>3 DEF Kept, Gone, AskDeleted
  <2> HIDE DEF turn, job
  <2> QED
    BY <1>0, <2>1, <2>2, <2>3, <2>4, <2>5, AskKeeps DEF AskDeleted, AskOver
\* The recording is deleted, or the bucket refuses.
<1>7. ASSUME NEW t \in A!Turns, A!Delete(t) \/ A!DeletionFails(t)
      PROVE  AskIInv'
  <2> DEFINE job == [jobs[t] EXCEPT !.pc = A!AfterDeletion(t)]
  <2>1. /\ jobs' = [jobs EXCEPT ![t] = job] /\ UNCHANGED <<turns, carried, followUps, askCalls>>
        /\ jobs[t].pc \in {"dropping", "heardNothing", "heard"}
    BY <1>7 DEF A!Delete, A!DeletionFails, A!Goes, A!session, A!history
  <2>2. /\ job \in A!Job /\ job.seen = jobs[t].seen
        /\ job.pc \in {"returned", "silent", "reading", "parsing"}
        /\ (job.pc = "returned" => jobs[t].pc = "dropping")
    <3>1. /\ A!AfterDeletion(t) \in {"returned", "silent", "reading", "parsing"}
          /\ A!AfterDeletion(t) = "returned" => jobs[t].pc = "dropping"
      BY <2>1 DEF A!AfterDeletion, A!WithText
    <3>2. jobs[t] \in A!Job
      BY <1>0
    <3> QED
      BY <3>1, <3>2, AskTypes DEF A!Working
  <2>3. /\ recordings' \in SUBSET Spoken /\ recordings' \ {t} = recordings \ {t}
        /\ undeleted' \in SUBSET A!Turns /\ undeleted \subseteq undeleted' /\ Gone(t)'
        /\ transcribed' = transcribed /\ askFaults' \in 0..MaxAskFaults
    <3>1. CASE A!Delete(t)
      BY <1>0, <3>1 DEF A!Delete, A!history, Gone
    <3>2. CASE A!DeletionFails(t)
      BY <1>0, <3>2 DEF A!DeletionFails, Gone
    <3> QED
      BY <1>7, <3>1, <3>2
  <2>4. /\ jobs[t].seen \subseteq A!Carried /\ turns[t].notes \subseteq A!Carried
        /\ A!Carried' = A!Carried
        /\ jobs[t].pc = "dropping" => turns[t].status = "failed"
    BY <1>0, <2>1 DEF Kept, A!Carried
  <2>5. turns' = [turns EXCEPT ![t] = turns[t]] /\ turns[t] \in A!Turn /\ carried' \in [Notes -> Nat]
    BY <1>0, <2>1
  <2> HIDE DEF job
  <2> QED
    BY <1>0, <2>1, <2>2, <2>3, <2>4, <2>5, AskKeeps DEF AskDeleted, AskOver
<1>8. ASSUME NEW t \in A!Turns,
             A!CannotParse(t) \/ A!ReadSession(t) \/ \E notes \in SUBSET Notes : A!Parse(t, notes)
      PROVE  AskIInv'
  <2>0. jobs[t] \in A!Job /\ jobs[t].seen \subseteq A!Carried /\ A!Carried \in SUBSET Notes
    BY <1>0 DEF Kept, A!Carried
  <2>1. /\ jobs[t].pc \in {"parsing", "reading"}
        /\ UNCHANGED <<turns, carried, followUps, recordings, askCalls, askFaults, transcribed,
                       undeleted>>
    BY <1>8 DEF A!CannotParse, A!ReadSession, A!Parse, A!session, A!history
  <2>2. PICK job \in A!Job : /\ jobs' = [jobs EXCEPT ![t] = job]
                             /\ job.seen \subseteq A!Carried /\ job.pc \in {"reading", "saving"}
    <3>1. CASE A!CannotParse(t)
      <4>1. /\ jobs' = [jobs EXCEPT ![t] = [jobs[t] EXCEPT !.pc = "reading"]]
            /\ "reading" \in A!Working
        BY <3>1 DEF A!CannotParse, A!Goes, A!Working
      <4>2. /\ [jobs[t] EXCEPT !.pc = "reading"] \in A!Job
            /\ [jobs[t] EXCEPT !.pc = "reading"].seen = jobs[t].seen
            /\ [jobs[t] EXCEPT !.pc = "reading"].pc = "reading"
        BY <2>0, <4>1, AskTypes
      <4> QED
        BY <2>0, <4>1, <4>2
    <3>2. CASE A!ReadSession(t)
      <4> DEFINE job == [jobs[t] EXCEPT !.pc = "saving", !.seen = A!Carried]
      <4>1. jobs' = [jobs EXCEPT ![t] = job]
        BY <1>0, <3>2 DEF A!ReadSession
      <4>2. job \in A!Job /\ job.seen = A!Carried /\ job.pc = "saving"
        BY <2>0 DEF A!Job, A!Working
      <4> QED
        BY <4>1, <4>2
    <3>3. CASE \E notes \in SUBSET Notes : A!Parse(t, notes)
      <4>0. PICK notes \in SUBSET Notes : A!Parse(t, notes)
        BY <3>3
      <4> DEFINE job == [jobs[t] EXCEPT !.pc = "reading", !.parsed = TRUE, !.notes = notes]
      <4>1. jobs' = [jobs EXCEPT ![t] = job]
        BY <1>0, <4>0 DEF A!Parse
      <4>2. job \in A!Job /\ job.seen = jobs[t].seen /\ job.pc = "reading"
        BY <2>0 DEF A!Job, A!Working
      <4> QED
        BY <2>0, <4>1, <4>2
    <3> QED
      BY <1>8, <3>1, <3>2, <3>3
  <2>3. Gone(t)'
    BY <1>0, <2>1 DEF Kept, Gone, AskDeleted
  <2> QED
    BY <1>0, <1>1, <2>1, <2>2, <2>3 DEF AskDeleted, AskOver
\* The turn is saved, and what it noted is carried by then.
<1>9. ASSUME NEW t \in A!Turns, A!SaveTurn(t)
      PROVE  AskIInv'
  <2> DEFINE notes == IF jobs[t].parsed THEN jobs[t].notes ELSE turns[t].notes
             turn == [turns[t] EXCEPT !.status = "done", !.text = TRUE, !.notes = notes]
             job == [jobs[t] EXCEPT !.pc = "reporting"]
  <2>0. /\ jobs[t] \in A!Job /\ turns[t] \in A!Turn /\ jobs[t].notes \in SUBSET Notes
        /\ jobs[t].seen \subseteq A!Carried /\ turns[t].notes \subseteq A!Carried
        /\ jobs[t].pc = "saving" /\ Gone(t)
    BY <1>0, <1>9 DEF Kept, AskDeleted, A!Job, A!SaveTurn
  <2>1. /\ turns' = [turns EXCEPT ![t] = turn] /\ jobs' = [jobs EXCEPT ![t] = job]
        /\ carried' = [n \in Notes |-> IF n \in jobs[t].notes \ jobs[t].seen THEN carried[n] + 1
                                       ELSE carried[n]]
        /\ UNCHANGED <<followUps, recordings, askCalls, askFaults, transcribed, undeleted>>
    BY <1>0, <1>9 DEF A!SaveTurn, A!Settled, A!Goes, A!history
  <2>2. /\ carried' \in [Notes -> Nat]
        /\ A!Carried \subseteq A!Carried' /\ jobs[t].notes \subseteq A!Carried'
    BY <1>0, <2>0, <2>1 DEF A!Carried
  <2>3. notes \in SUBSET Notes /\ notes \subseteq A!Carried'
    BY <2>0, <2>2 DEF A!Turn
  <2> HIDE DEF notes
  <2>4. turn \in A!Turn /\ turn.notes = notes /\ turn.status = "done"
    BY <2>0, <2>3 DEF A!Turn
  <2>5. job \in A!Job /\ job.seen = jobs[t].seen /\ job.pc = "reporting"
    BY <2>0, AskTypes DEF A!Working
  <2>6. Gone(t)'
    BY <2>0, <2>1 DEF Gone
  <2> HIDE DEF turn, job
  <2> QED
    BY <1>0, <2>0, <2>1, <2>2, <2>3, <2>4, <2>5, <2>6, AskKeeps
\* The handler returns, or the queue records how the job ended.
<1>10. ASSUME NEW t \in A!Turns,
              A!Report(t) \/ \E status \in {"succeeded", "cancelled"} : A!Finish(t, status)
       PROVE  AskIInv'
  <2>0. /\ jobs[t] \in A!Job /\ jobs[t].seen \subseteq A!Carried
        /\ turns[t].status \in {"done", "failed"} /\ Gone(t)
    BY <1>0, <1>10 DEF Kept, AskDeleted, AskOver, A!Report, A!Finish
  <2>1. PICK pc \in {"returned", "succeeded", "cancelled"} :
           jobs' = [jobs EXCEPT ![t] = [jobs[t] EXCEPT !.pc = pc]]
    BY <1>10 DEF A!Report, A!Finish, A!Goes
  <2>2. UNCHANGED <<turns, carried, followUps, recordings, askCalls, askFaults, transcribed,
                    undeleted>>
    BY <1>10 DEF A!Report, A!Finish, A!session, A!history
  <2>3. PICK job \in A!Job : /\ jobs' = [jobs EXCEPT ![t] = job]
                             /\ job.seen = jobs[t].seen /\ job.pc = pc
    <3>1. pc \in A!Working \cup A!Ended
      BY DEF A!Working, A!Ended
    <3>2. /\ [jobs[t] EXCEPT !.pc = pc] \in A!Job /\ [jobs[t] EXCEPT !.pc = pc].pc = pc
          /\ [jobs[t] EXCEPT !.pc = pc].seen = jobs[t].seen
      BY <2>0, <3>1, AskTypes
    <3> QED
      BY <2>1, <3>2
  <2>4. Gone(t)'
    BY <2>0, <2>2 DEF Gone
  <2> QED
    BY <1>0, <1>1, <2>0, <2>2, <2>3, <2>4 DEF AskOver
\* The job is put back.
<1>15. ASSUME NEW t \in A!Turns, A!Retry(t)
       PROVE  AskIInv'
  <2> DEFINE job == [A!NoJob EXCEPT !.pc = "queued"]
  <2>1. job \in A!Job /\ job.pc = "queued" /\ job.seen = {}
    BY AskTypes
  <2>2. /\ jobs' = [jobs EXCEPT ![t] = job]
        /\ UNCHANGED <<turns, carried, followUps, recordings, askCalls, askFaults, transcribed,
                       undeleted>>
    BY <1>15 DEF A!Retry, A!session
  <2> HIDE DEF job
  <2> QED
    BY <1>0, <1>1, <2>1, <2>2 DEF AskDeleted, AskOver
\* The questions about the verdict do not touch the turns.
<1>11. ASSUME UNCHANGED <<turns, carried, recordings, jobs, undeleted, transcribed>>,
              followUps' \in Nat, askCalls' \in [Calls -> {"idle", "asked"}],
              askFaults' \in 0..MaxAskFaults
       PROVE  AskIInv'
  BY <1>0, <1>11 DEF AskIInv, A!TypeOK, Kept, Gone, A!Carried
<1>12. ASSUME NEW c \in Calls,
              A!BeginFollowUp(c) \/ \E answered \in BOOLEAN : A!EndFollowUp(c, answered)
       PROVE  AskIInv'
  BY <1>0, <1>11, <1>12 DEF A!BeginFollowUp, A!EndFollowUp, A!session, A!history
<1>13. CASE A!Restart
  <2>1. /\ UNCHANGED <<turns, carried, followUps, recordings, transcribed, undeleted>>
        /\ askFaults' \in 0..MaxAskFaults /\ askCalls' \in [Calls -> {"idle", "asked"}]
    BY <1>0, <1>13 DEF A!Restart, A!session, A!history
  <2>2. ASSUME NEW t \in A!Turns
        PROVE  /\ jobs'[t] \in A!Job /\ jobs'[t].seen = jobs[t].seen
               /\ jobs'[t].pc \in {"lost", "queued"} \/ jobs'[t] = jobs[t]
    <3>1. jobs[t] \in A!Job
      BY <1>0
    <3>2. \/ jobs'[t] = [jobs[t] EXCEPT !.pc = "lost"]
          \/ jobs'[t] = [jobs[t] EXCEPT !.pc = "queued"]
          \/ jobs'[t] = jobs[t]
      BY <1>13 DEF A!Restart, A!Working
    <3>3. ASSUME NEW pc \in {"lost", "queued"}, jobs'[t] = [jobs[t] EXCEPT !.pc = pc]
          PROVE  jobs'[t] \in A!Job /\ jobs'[t].seen = jobs[t].seen /\ jobs'[t].pc = pc
      BY <3>1, <3>3, AskTypes
    <3> QED
      BY <3>1, <3>2, <3>3
  <2>3. jobs' \in [A!Turns -> A!Job]
    BY <1>13, <2>2 DEF A!Restart
  <2>4. A!TypeOK'
    BY <1>0, <2>1, <2>3 DEF A!TypeOK
  <2>5. \A t \in A!Turns : Kept(t)'
    BY <1>0, <2>1, <2>2 DEF Kept, Gone, AskDeleted, AskOver, A!Carried
  <2> QED
    BY <1>0, <2>1, <2>4, <2>5 DEF AskIInv
<1>14. CASE UNCHANGED A!vars
  BY <1>0, <1>11, <1>14 DEF A!vars, A!session, A!history
<1> QED
  BY <1>2, <1>4, <1>5, <1>6, <1>7, <1>8, <1>9, <1>10, <1>12, <1>13, <1>14, <1>15 DEF A!Next, A!Attempts

LEMMA SpentKept == AskIInv /\ SpentInv /\ [A!Next]_(A!vars) => SpentInv'
<1> SUFFICES ASSUME AskIInv, SpentInv, [A!Next]_(A!vars) PROVE SpentInv'
  OBVIOUS
<1>0. /\ jobs \in [A!Turns -> A!Job] /\ broken \in [A!Turns -> Nat] /\ MaxAttempts \in Nat
      /\ \A t \in A!Turns : jobs[t].attempts \in Nat /\ Spent(t)
  BY AskAssumption DEF AskIInv, SpentInv, A!TypeOK, A!Job, A!AskAssumption
<1>1. ASSUME NEW t \in A!Turns, NEW job \in A!Job, jobs' = [jobs EXCEPT ![t] = job],
             NEW times \in Nat, broken' = [broken EXCEPT ![t] = times],
             job.pc \in {"unqueued", "queued"} => job.attempts <= times,
             job.pc \in A!Working => job.attempts <= times + 1,
             job.pc = "failed" => MaxAttempts <= times
      PROVE  SpentInv'
  <2>1. ASSUME NEW s \in A!Turns
        PROVE  Spent(s)'
    <3>1. CASE s = t
      BY <1>0, <1>1, <3>1 DEF Spent
    <3>2. CASE s # t
      <4>1. jobs'[s] = jobs[s] /\ broken'[s] = broken[s]
        BY <1>0, <1>1, <3>2
      <4> QED
        BY <1>0, <4>1 DEF Spent
    <3> QED
      BY <3>1, <3>2
  <2> QED
    BY <1>0, <1>1, <2>1 DEF SpentInv
<1>2. ASSUME UNCHANGED <<jobs, broken>>
      PROVE  SpentInv'
  BY <1>0, <1>2 DEF SpentInv, Spent
\* An attempt goes on, or has ended well.
<1>3. ASSUME NEW t \in A!Turns, NEW job \in A!Job, jobs' = [jobs EXCEPT ![t] = job],
             broken' = broken, jobs[t].pc \in A!Working, job.attempts = jobs[t].attempts,
             job.pc \in A!Working \cup {"succeeded", "cancelled"}
      PROVE  SpentInv'
  <2>1. broken' = [broken EXCEPT ![t] = broken[t]] /\ broken[t] \in Nat
    BY <1>0, <1>3
  <2>2. jobs[t].attempts <= broken[t] + 1
    BY <1>0, <1>3 DEF Spent
  <2>3. job.pc \notin {"unqueued", "queued", "failed"}
    BY <1>3 DEF A!Working
  <2> QED
    BY <1>1, <1>3, <2>1, <2>2, <2>3
<1>4. ASSUME NEW t \in A!Turns, NEW pc, A!Goes(t, pc), broken' = broken, jobs[t].pc \in A!Working,
             pc \in A!Working \cup {"succeeded", "cancelled"}
      PROVE  SpentInv'
  <2>1. jobs' = [jobs EXCEPT ![t] = [jobs[t] EXCEPT !.pc = pc]]
    BY <1>4 DEF A!Goes
  <2>2. /\ [jobs[t] EXCEPT !.pc = pc] \in A!Job /\ [jobs[t] EXCEPT !.pc = pc].pc = pc
        /\ [jobs[t] EXCEPT !.pc = pc].attempts = jobs[t].attempts
    <3>1. jobs[t] \in A!Job /\ pc \in A!Working \cup A!Ended
      BY <1>0, <1>4 DEF A!Ended
    <3> QED
      BY <3>1, AskTypes
  <2> QED
    BY <1>3, <1>4, <2>1, <2>2
<1>5. ASSUME NEW t \in A!Turns, A!Attempts(t) \/ A!DeletionFails(t)
      PROVE  SpentInv'
  <2>1. CASE \E pc \in {"heard", "heardNothing"} : A!Transcribe(t, pc)
    BY <1>4, <2>1 DEF A!Transcribe, A!Working
  <2>2. CASE A!CannotTranscribe(t) \/ A!SettleUnheard(t) \/ A!SettleSilent(t)
    BY <1>4, <2>2 DEF A!CannotTranscribe, A!SettleUnheard, A!SettleSilent, A!history, A!Working
  <2>3. CASE A!CannotParse(t) \/ A!SaveTurn(t) \/ A!Report(t)
    BY <1>4, <2>3 DEF A!CannotParse, A!SaveTurn, A!Report, A!history, A!Working
  <2>4. CASE A!Delete(t) \/ A!DeletionFails(t)
    <3>1. /\ A!Goes(t, A!AfterDeletion(t)) /\ broken' = broken
          /\ jobs[t].pc \in {"dropping", "heardNothing", "heard"}
      BY <2>4 DEF A!Delete, A!DeletionFails, A!history
    <3>2. A!AfterDeletion(t) \in A!Working /\ jobs[t].pc \in A!Working
      BY <3>1 DEF A!AfterDeletion, A!WithText, A!Working
    <3> QED
      BY <1>4, <3>1, <3>2
  <2>5. CASE \E status \in {"succeeded", "cancelled"} : A!Finish(t, status)
    BY <1>4, <2>5 DEF A!Finish, A!history, A!Working
  <2>6. CASE A!ReadSession(t)
    <3> DEFINE job == [jobs[t] EXCEPT !.pc = "saving", !.seen = A!Carried]
    <3>1. /\ jobs' = [jobs EXCEPT ![t] = job] /\ broken' = broken /\ jobs[t].pc \in A!Working
      BY <1>0, <2>6 DEF A!ReadSession, A!history, A!Working
    <3>2. jobs[t] \in A!Job /\ A!Carried \in SUBSET Notes
      BY <1>0 DEF A!Carried
    <3>3. job \in A!Job /\ job.attempts = jobs[t].attempts /\ job.pc \in A!Working
      BY <3>2 DEF A!Job, A!Working
    <3> HIDE DEF job
    <3> QED
      BY <1>3, <3>1, <3>3
  <2>7. CASE \E notes \in SUBSET Notes : A!Parse(t, notes)
    <3>0. PICK notes \in SUBSET Notes : A!Parse(t, notes)
      BY <2>7
    <3> DEFINE job == [jobs[t] EXCEPT !.pc = "reading", !.parsed = TRUE, !.notes = notes]
    <3>1. /\ jobs' = [jobs EXCEPT ![t] = job] /\ broken' = broken /\ jobs[t].pc \in A!Working
      BY <1>0, <3>0 DEF A!Parse, A!history, A!Working
    <3>2. jobs[t] \in A!Job
      BY <1>0
    <3>3. job \in A!Job /\ job.attempts = jobs[t].attempts /\ job.pc \in A!Working
      BY <3>2 DEF A!Job, A!Working
    <3> HIDE DEF job
    <3> QED
      BY <1>3, <3>1, <3>3
  <2> QED
    BY <1>5, <2>1, <2>2, <2>3, <2>4, <2>5, <2>6, <2>7 DEF A!Attempts
\* A job is put in the queue, with no attempt made, or as it was.
<1>6. ASSUME NEW t \in A!Turns, A!CreateTurn(t) \/ A!QueueTurn(t) \/ A!Retry(t)
      PROVE  SpentInv'
  <2> DEFINE new == [A!NoJob EXCEPT !.pc = "unqueued"]
             again == [A!NoJob EXCEPT !.pc = "queued"]
  <2>0. /\ new \in A!Job /\ new.pc = "unqueued" /\ new.attempts = 0
        /\ again \in A!Job /\ again.pc = "queued" /\ again.attempts = 0
        /\ "unqueued" \notin A!Working /\ "queued" \notin A!Working
    BY AskTypes DEF A!NoJob, A!Working
  <2>1. CASE A!CreateTurn(t)
    <3>1. /\ jobs' = [jobs EXCEPT ![t] = new]
          /\ broken' = [broken EXCEPT ![t] = broken[t]] /\ broken[t] \in Nat
      BY <1>0, <2>1 DEF A!CreateTurn, A!history
    <3> HIDE DEF new
    <3>2. new.attempts <= broken[t]
      BY <2>0, <3>1
    <3> QED
      BY <1>1, <2>0, <3>1, <3>2
  <2>2. CASE A!QueueTurn(t)
    <3>1. /\ jobs' = [jobs EXCEPT ![t] = [jobs[t] EXCEPT !.pc = "queued"]]
          /\ broken' = [broken EXCEPT ![t] = broken[t]] /\ broken[t] \in Nat
          /\ jobs[t] \in A!Job /\ jobs[t].attempts <= broken[t]
      BY <1>0, <2>2 DEF A!QueueTurn, A!Goes, A!history, Spent
    <3>2. /\ [jobs[t] EXCEPT !.pc = "queued"] \in A!Job
          /\ [jobs[t] EXCEPT !.pc = "queued"].pc = "queued"
          /\ [jobs[t] EXCEPT !.pc = "queued"].attempts = jobs[t].attempts
      BY <3>1, AskTypes
    <3>3. jobs[t].attempts <= broken[t] + 1
      BY <1>0, <3>1
    <3> QED
      BY <1>1, <3>1, <3>2, <3>3
  <2>3. CASE A!Retry(t)
    <3>1. jobs' = [jobs EXCEPT ![t] = again] /\ broken' = [broken EXCEPT ![t] = 0]
      BY <2>3 DEF A!Retry
    <3> HIDE DEF again
    <3>2. again.attempts <= 0 /\ 0 \in Nat
      BY <2>0
    <3> QED
      BY <1>1, <2>0, <3>1, <3>2
  <2> QED
    BY <1>6, <2>1, <2>2, <2>3
<1>7. ASSUME NEW t \in A!Turns, A!Claim(t)
      PROVE  SpentInv'
  <2> DEFINE job == [A!NoJob EXCEPT !.pc = IF t \in Spoken THEN "listening" ELSE A!WithText(t),
                                    !.attempts = jobs[t].attempts + 1]
  <2>1. job \in A!Job /\ job.pc \in A!Working /\ job.attempts = jobs[t].attempts + 1
    <3>1. jobs[t].attempts + 1 \in Nat
      BY <1>0
    <3> QED
      BY <3>1 DEF A!NoJob, A!Job, A!Working, A!WithText
  <2>2. /\ jobs' = [jobs EXCEPT ![t] = job]
        /\ broken' = [broken EXCEPT ![t] = broken[t]] /\ broken[t] \in Nat
        /\ jobs[t].attempts <= broken[t] /\ jobs[t].attempts \in Nat
    BY <1>0, <1>7 DEF A!Claim, A!history, Spent
  <2>3. job.pc \notin {"unqueued", "queued", "failed"} /\ job.attempts <= broken[t] + 1
    BY <2>1, <2>2 DEF A!Working
  <2> HIDE DEF job
  <2> QED
    BY <1>1, <2>1, <2>2, <2>3
\* The attempt is broken off, and was the last of them only if that many were.
<1>8. ASSUME NEW t \in A!Turns, A!Throws(t)
      PROVE  SpentInv'
  <2>1. /\ jobs[t] \in A!Job /\ jobs[t].attempts \in Nat /\ broken[t] \in Nat
        /\ broken' = [broken EXCEPT ![t] = broken[t] + 1]
        /\ jobs[t].attempts <= broken[t] + 1
    BY <1>0, <1>8 DEF A!Throws, Spent
  <2>2. PICK pc \in {"failed", "queued"} :
           /\ jobs' = [jobs EXCEPT ![t] = [jobs[t] EXCEPT !.pc = pc]]
           /\ pc = "failed" => jobs[t].attempts >= MaxAttempts
    BY <1>8 DEF A!Throws, A!Goes
  <2>3. /\ [jobs[t] EXCEPT !.pc = pc] \in A!Job /\ [jobs[t] EXCEPT !.pc = pc].pc = pc
        /\ [jobs[t] EXCEPT !.pc = pc].attempts = jobs[t].attempts
    <3>1. pc \in A!Ended \cup {"queued"}
      BY DEF A!Ended
    <3> QED
      BY <2>1, <3>1, AskTypes
  <2>4. pc \notin A!Working /\ broken[t] + 1 \in Nat
    BY <2>1 DEF A!Working
  <2>5. pc = "failed" => MaxAttempts <= broken[t] + 1
    BY <1>0, <2>1, <2>2
  <2> QED
    BY <1>1, <2>1, <2>2, <2>3, <2>4, <2>5
<1>9. CASE A!Restart
  <2>1. broken' \in [A!Turns -> Nat]
    BY <1>0, <1>9 DEF A!Restart
  <2>2. ASSUME NEW t \in A!Turns
        PROVE  Spent(t)'
    <3>0. /\ jobs[t] \in A!Job /\ jobs[t].attempts \in Nat /\ broken[t] \in Nat /\ Spent(t)
      BY <1>0
    <3>1. CASE jobs[t].pc \in A!Working
      <4>1. jobs'[t] = [jobs[t] EXCEPT !.pc = "queued"] /\ broken'[t] = broken[t] + 1
        BY <1>9, <3>1 DEF A!Restart, A!Working
      <4>2. jobs'[t].pc = "queued" /\ jobs'[t].attempts = jobs[t].attempts
        BY <3>0, <4>1, AskTypes
      <4> QED
        BY <3>0, <3>1, <4>1, <4>2 DEF Spent, A!Working
    <3>2. CASE jobs[t].pc = "unqueued"
      <4>1. jobs'[t] = [jobs[t] EXCEPT !.pc = "lost"]
        BY <1>9, <3>2 DEF A!Restart, A!Working
      <4>2. jobs'[t].pc = "lost"
        BY <3>0, <4>1, AskTypes
      <4> QED
        BY <4>2 DEF Spent, A!Working
    <3>3. CASE jobs[t].pc \notin A!Working /\ jobs[t].pc # "unqueued"
      <4>1. jobs'[t] = jobs[t] /\ broken'[t] = broken[t]
        BY <1>9, <3>3 DEF A!Restart
      <4> QED
        BY <3>0, <4>1 DEF Spent
    <3> QED
      BY <3>1, <3>2, <3>3
  <2> QED
    BY <2>1, <2>2 DEF SpentInv
<1>10. ASSUME NEW c \in Calls,
              A!BeginFollowUp(c) \/ \E answered \in BOOLEAN : A!EndFollowUp(c, answered)
       PROVE  SpentInv'
  BY <1>2, <1>10 DEF A!BeginFollowUp, A!EndFollowUp, A!history
<1>11. CASE UNCHANGED A!vars
  BY <1>2, <1>11 DEF A!vars, A!history
<1> QED
  BY <1>5, <1>6, <1>7, <1>8, <1>9, <1>10, <1>11 DEF A!Next

LEMMA AskInvariant == A!Spec => [](AskIInv /\ SpentInv)
<1>1. A!Init => AskIInv /\ SpentInv
  BY AskAssumption, AskTypes
  DEF A!AskAssumption, A!Init, AskIInv, SpentInv, Spent, A!TypeOK, A!Turn, A!Turns, A!Working, Kept,
      AskDeleted, AskOver, Gone, A!NoJob
<1> QED
  BY <1>1, AskKept, SpentKept, PTL DEF A!Spec

\* "a constraint from step one survives to step four" (ask.model.ts:78), whatever turns are settled at
\* the same time or again: what an attempt saves is what it has not read, and what it has read stays.
THEOREM ConstraintsSurvive == A!Spec => []NotesCarried
<1>1. AskIInv => NotesCarried
  BY DEF AskIInv, Kept, NotesCarried, A!NotesCarried
<1> QED
  BY <1>1, AskInvariant, PTL

\* "Nothing keeps the recording after this point" (ask.jobs.ts:62): a job that has ended, with or without
\* an operator's asking and however often it was made again, has left its turn settled and its recording
\* deleted, unless the bucket refused; but for a job that was given up, which it was only after each of
\* its attempts had been broken off since it was last queued.
THEOREM EndedJobsAreTidy == A!Spec => []EndedJobsLeaveNothing
<1>1. AskIInv /\ SpentInv => EndedJobsLeaveNothing
  <2> SUFFICES ASSUME AskIInv, SpentInv, NEW t \in A!Turns, jobs[t].pc \in A!Ended
               PROVE  \/ turns[t].status \in {"done", "failed"} /\ Gone(t)
                      \/ jobs[t].pc = "failed" /\ broken[t] >= MaxAttempts
    BY DEF EndedJobsLeaveNothing, A!EndedJobsLeaveNothing, Gone
  <2>1. Kept(t) /\ Spent(t) /\ broken[t] \in Nat /\ MaxAttempts \in Nat
    BY AskAssumption DEF AskIInv, SpentInv, A!AskAssumption
  <2>2. CASE jobs[t].pc = "failed"
    BY <2>1, <2>2 DEF Spent
  <2>3. CASE jobs[t].pc \in {"succeeded", "cancelled"}
    BY <2>1, <2>3 DEF Kept, AskDeleted, AskOver
  <2> QED
    BY <2>2, <2>3 DEF A!Ended
<1> QED
  BY <1>1, AskInvariant, PTL

----------------------------------------------------------------------------
(* The staff console.                                                      *)

\* The least of a set of numbers is one of them.
LEMMA LeastIsOne ==
    ASSUME NEW numbers, numbers \subseteq Nat, numbers # {}
    PROVE  S!Min(numbers) \in numbers
<1>1. \A x, y \in Nat : <<x, y>> \in OpToRel(<, Nat) <=> x < y
  BY DEF OpToRel
<1>2. \E x \in numbers : \A y \in numbers : ~(<<y, x>> \in OpToRel(<, Nat))
  BY NatLessThanWellFounded, WFMin
<1>3. PICK x \in numbers : \A y \in numbers : ~(<<y, x>> \in OpToRel(<, Nat))
  BY <1>2
<1>4. \A y \in numbers : x <= y
  <2> TAKE y \in numbers
  <2>1. x \in Nat /\ y \in Nat /\ ~(y < x)
    BY <1>1, <1>3
  <2> QED
    BY <2>1
<1> QED
  BY <1>3, <1>4 DEF S!Min

\* The calls about a person that are at one of these steps.
About(p, steps) == {c \in Calls : staffCalls[c].who = p /\ staffCalls[c].pc \in steps}
Inviting == {"withdraw", "issue"}
Touching == {"withdraw", "issue", "accept", "spend"}

\* Of a person whose calls have not crossed: what is offered and what is granted is what was decided,
\* and the one invitation that is open is one that is being accepted, or is withdrawn before the next.
Granted(p) ==
    /\ staff[p].grant = decided[p]
    /\ \A c \in About(p, Inviting) : staffCalls[c].grant = decided[p] /\ ~S!Active(p)
    /\ \A c \in About(p, {"accept"}) :
          staffCalls[c].grant = decided[p] \/ About(p, Inviting) # {}
    /\ \A i \in S!Open(p) : invites[i].grant = decided[p] \/ About(p, {"withdraw"}) # {}
OneWayIn(p) ==
    /\ \A i, j \in S!Open(p) : i = j
    /\ About(p, {"issue"}) # {} => S!Open(p) = {}
    /\ \A c \in About(p, {"accept", "spend"}) : S!Open(p) \subseteq {staffCalls[c].invite}
    /\ S!Active(p) /\ S!Open(p) # {} => About(p, {"spend"}) # {}
Unmet(p) == staff[p].status = "absent" => S!Open(p) = {} /\ About(p, Touching) = {}
StaffIInv ==
    /\ S!TypeOK
    /\ \A p \in Colleagues : Unmet(p) /\ (p \notin excused => Granted(p) /\ OneWayIn(p))

LEMMA StaffTypes ==
    /\ S!Idle \in S!Call /\ S!Idle.pc = "idle" /\ S!Idle.who = Owner
    /\ S!NoInvite \in S!Invite /\ S!NoInvite.status = "none"
    /\ \A call \in S!Call, pc \in S!Step :
          /\ [call EXCEPT !.pc = pc] \in S!Call /\ [call EXCEPT !.pc = pc].pc = pc
          /\ [call EXCEPT !.pc = pc].who = call.who /\ [call EXCEPT !.pc = pc].grant = call.grant
          /\ [call EXCEPT !.pc = pc].invite = call.invite
    /\ \A i \in S!Invite, s \in {"used", "revoked"} :
          /\ [i EXCEPT !.status = s] \in S!Invite /\ [i EXCEPT !.status = s].status = s
          /\ [i EXCEPT !.status = s].for = i.for /\ [i EXCEPT !.status = s].grant = i.grant
BY DEF S!Idle, S!Call, S!Step, S!NoInvite, S!Invite, S!None, S!People

\* Whoever a step is not about is as they were, or a way in of theirs has closed.
LEMMA Bystanders ==
    ASSUME StaffIInv, NEW p \in Colleagues,
           staff'[p].grant = staff[p].grant, decided'[p] = decided[p],
           S!Active(p)' => S!Active(p), staff'[p].status = "absent" => staff[p].status = "absent",
           p \in excused => p \in excused',
           \A c \in Calls : /\ c \in About(p, Touching)' => staffCalls'[c] = staffCalls[c]
                            /\ c \in About(p, {"withdraw", "issue", "spend"}) =>
                                  staffCalls'[c] = staffCalls[c],
           \A i \in S!Open(p)' : i \in S!Open(p) /\ invites'[i].grant = invites[i].grant
    PROVE  Unmet(p)' /\ (p \notin excused' => Granted(p)' /\ OneWayIn(p)')
<1>1. \A c \in About(p, Touching)' : c \in About(p, Touching) /\ staffCalls'[c] = staffCalls[c]
  BY DEF About
<1>2. Unmet(p) /\ (p \notin excused => Granted(p) /\ OneWayIn(p))
  BY DEF StaffIInv
<1>3. \A steps \in {Inviting, {"withdraw"}, {"issue"}, {"spend"}} : About(p, steps)' = About(p, steps)
  BY <1>1 DEF About, Inviting, Touching
<1>4. Unmet(p)'
  BY <1>1, <1>2 DEF Unmet
<1>5. ASSUME p \notin excused' PROVE Granted(p)' /\ OneWayIn(p)'
  <2>1. Granted(p) /\ OneWayIn(p)
    BY <1>2, <1>5
  <2>2. \A steps \in {{"accept"}, {"accept", "spend"}} : \A c \in About(p, steps)' :
            c \in About(p, steps) /\ staffCalls'[c] = staffCalls[c]
    BY <1>1 DEF About, Touching
  <2>3. \A c \in About(p, Inviting)' : c \in About(p, Inviting) /\ staffCalls'[c] = staffCalls[c]
    BY <1>1 DEF About, Touching, Inviting
  <2>4. Granted(p)'
    BY <1>3, <2>1, <2>2, <2>3 DEF Granted
  <2>5. OneWayIn(p)'
    BY <1>3, <2>1, <2>2 DEF OneWayIn
  <2> QED
    BY <2>4, <2>5
<1> QED
  BY <1>4, <1>5

LEMMA StaffKept == StaffIInv /\ [S!Next]_(S!vars) => StaffIInv'
<1> SUFFICES ASSUME StaffIInv, [S!Next]_(S!vars) PROVE StaffIInv'
  OBVIOUS
<1> USE StaffAssumption DEF S!StaffAssumption
<1>0. /\ staff \in [S!People -> S!Row] /\ invites \in [S!Invites -> S!Invite]
      /\ staffCalls \in [Calls -> S!Call] /\ decided \in [S!People -> Nat]
      /\ barred \in [S!People -> BOOLEAN] /\ excused \in SUBSET S!People
      /\ begun \in 0..MaxCalls /\ staffFaults \in 0..MaxDeaths
      /\ Colleagues \subseteq S!People /\ Owner \in S!People
  BY DEF StaffIInv, S!TypeOK, S!People
<1>met. \A p \in Colleagues : Unmet(p) /\ (p \notin excused => Granted(p) /\ OneWayIn(p))
  BY DEF StaffIInv
\* A step of one call that is about nobody's way in.
<1>1. ASSUME NEW c \in Calls, NEW call \in S!Call, staffCalls' = [staffCalls EXCEPT ![c] = call],
             call.pc \notin Touching, staffCalls[c].pc \notin Touching,
             UNCHANGED <<invites, decided, excused>>,
             staff' \in [S!People -> S!Row], barred' \in [S!People -> BOOLEAN],
             \A p \in Colleagues : /\ staff'[p].grant = staff[p].grant
                                   /\ S!Active(p)' => S!Active(p)
                                   /\ staff'[p].status = "absent" => staff[p].status = "absent",
             begun' \in 0..MaxCalls, staffFaults' \in 0..MaxDeaths
      PROVE  StaffIInv'
  <2>1. S!TypeOK'
    BY <1>0, <1>1 DEF S!TypeOK
  <2>2. /\ staffCalls'[c] = call /\ \A d \in Calls : d # c => staffCalls'[d] = staffCalls[d]
        /\ \A p : S!Open(p)' = S!Open(p)
    BY <1>0, <1>1 DEF S!Open
  <2>3. ASSUME NEW p \in Colleagues
        PROVE  Unmet(p)' /\ (p \notin excused' => Granted(p)' /\ OneWayIn(p)')
    <3>1. \A d \in Calls : /\ d \in About(p, Touching)' => staffCalls'[d] = staffCalls[d]
                           /\ d \in About(p, {"withdraw", "issue", "spend"}) =>
                                  staffCalls'[d] = staffCalls[d]
      BY <1>1, <2>2 DEF About, Touching
    <3> QED
      BY <1>1, <2>2, <3>1, Bystanders
  <2> QED
    BY <2>1, <2>3 DEF StaffIInv
<1>2. ASSUME NEW c \in Calls, NEW call \in S!Call, S!Begin(c, call), call.pc \notin Touching,
             UNCHANGED <<staff, invites, decided, barred, excused, staffFaults>>
      PROVE  StaffIInv'
  <2>1. staffCalls[c].pc = "idle" /\ begun' \in 0..MaxCalls
        /\ staffCalls' = [staffCalls EXCEPT ![c] = call]
    BY <1>0, <1>2, StaffTypes DEF S!Begin
  <2>2. staffCalls[c].pc \notin Touching
    BY <2>1 DEF Touching
  <2>3. \A p \in Colleagues : /\ staff'[p].grant = staff[p].grant
                              /\ S!Active(p)' => S!Active(p)
                              /\ staff'[p].status = "absent" => staff[p].status = "absent"
    BY <1>2 DEF S!Active
  <2> QED
    BY <1>0, <1>1, <1>2, <2>1, <2>2, <2>3
<1>3. ASSUME NEW c \in Calls, NEW actor \in S!People, NEW p \in S!People,
             \/ S!BeginSetup(c) \/ S!BeginInvite(c, actor, p)
             \/ S!BeginRevoke(c, actor, p) \/ S!BeginSetPermissions(c, actor, p)
      PROVE  StaffIInv'
  <2>1. PICK call : /\ call \in {[S!Idle EXCEPT !.pc = "count"]} \cup
                          {[S!Idle EXCEPT !.pc = pc, !.who = p] : pc \in {"find", "look", "grant"}}
                    /\ S!Begin(c, call)
    BY <1>3 DEF S!BeginSetup, S!BeginInvite, S!BeginRevoke, S!BeginSetPermissions, S!BeginBy
  <2>2. call \in S!Call /\ call.pc \notin Touching
    <3>1. [S!Idle EXCEPT !.pc = "count"] \in S!Call /\ [S!Idle EXCEPT !.pc = "count"].pc = "count"
      BY StaffTypes DEF S!Step
    <3>2. \A pc \in {"find", "look", "grant"} :
             /\ [S!Idle EXCEPT !.pc = pc, !.who = p] \in S!Call
             /\ [S!Idle EXCEPT !.pc = pc, !.who = p].pc = pc
      <4> SUFFICES ASSUME NEW pc \in {"find", "look", "grant"}
                   PROVE  /\ [S!Idle EXCEPT !.pc = pc, !.who = p] \in S!Call
                          /\ [S!Idle EXCEPT !.pc = pc, !.who = p].pc = pc
        OBVIOUS
      <4>1. pc \in S!Step
        BY DEF S!Step
      <4> QED
        BY <4>1, StaffTypes DEF S!Idle, S!Call, S!None
    <3> QED
      BY <2>1, <3>1, <3>2 DEF Touching
  <2>3. UNCHANGED <<staff, invites, decided, barred, excused, staffFaults>>
    BY <1>3 DEF S!BeginSetup, S!BeginInvite, S!BeginRevoke, S!BeginSetPermissions, S!history
  <2> QED
    BY <1>2, <2>1, <2>2, <2>3
<1>4. ASSUME NEW c \in Calls,
             \/ S!CountStaff(c) \/ S!FindColleague(c) \/ S!LookAtTier(c) \/ S!CountOwners(c)
             \/ S!CreateOwner(c) \/ S!RevokeAccess(c)
      PROVE  StaffIInv'
  <2>0. staffCalls[c] \in S!Call
    BY <1>0
  <2>1. PICK call \in S!Call : /\ staffCalls' = [staffCalls EXCEPT ![c] = call]
                               /\ call.pc \notin Touching
    <3>1. \A pc \in {"setup", "others", "revoke"} :
             [staffCalls[c] EXCEPT !.pc = pc] \in S!Call /\ [staffCalls[c] EXCEPT !.pc = pc].pc = pc
      <4>1. \A pc \in {"setup", "others", "revoke"} : pc \in S!Step
        BY DEF S!Step
      <4> QED
        BY <2>0, <4>1, StaffTypes
    <3>2. /\ S!Ends(c) <=> staffCalls' = [staffCalls EXCEPT ![c] = S!Idle]
          /\ \A pc : S!Goes(c, pc) <=>
                staffCalls' = [staffCalls EXCEPT ![c] = [staffCalls[c] EXCEPT !.pc = pc]]
      BY <1>0 DEF S!Ends, S!Goes
    <3>3. CASE S!Ends(c)
      BY <3>2, <3>3, StaffTypes DEF Touching
    <3>4. CASE \E pc \in {"setup", "others", "revoke"} : S!Goes(c, pc)
      BY <3>1, <3>2, <3>4 DEF Touching
    <3>5. CASE S!FindColleague(c) /\ ~S!Ends(c)
      <4> DEFINE found == staff[staffCalls[c].who].status # "absent"
                 call == [staffCalls[c] EXCEPT !.pc = "write", !.found = found]
      <4>1. staffCalls' = [staffCalls EXCEPT ![c] = call]
        BY <1>0, <3>5 DEF S!FindColleague
      <4>2. found \in BOOLEAN
        OBVIOUS
      <4> HIDE DEF found
      <4>3. call \in S!Call /\ call.pc = "write"
        BY <2>0, <4>2 DEF S!Call, S!Step
      <4> QED
        BY <4>1, <4>3 DEF Touching
    <3> QED
      BY <1>4, <3>3, <3>4, <3>5 DEF S!CountStaff, S!LookAtTier, S!CountOwners, S!CreateOwner,
         S!RevokeAccess
  <2>2. /\ staffCalls[c].pc \notin Touching /\ UNCHANGED <<invites, decided, excused>>
        /\ begun' \in 0..MaxCalls /\ staffFaults' \in 0..MaxDeaths
    BY <1>0, <1>4 DEF S!CountStaff, S!FindColleague, S!LookAtTier, S!CountOwners, S!CreateOwner,
       S!RevokeAccess, S!history, S!spent, Touching
  <2>3. /\ staff' \in [S!People -> S!Row] /\ barred' \in [S!People -> BOOLEAN]
        /\ \A p \in Colleagues : /\ staff'[p].grant = staff[p].grant
                                 /\ S!Active(p)' => S!Active(p)
                                 /\ staff'[p].status = "absent" => staff[p].status = "absent"
    <3>1. CASE UNCHANGED <<staff, barred>>
      BY <1>0, <3>1 DEF S!Active
    <3>2. CASE S!CreateOwner(c) /\ staff' # staff
      <4>1. /\ staff' = [staff EXCEPT ![Owner] = [staff[Owner] EXCEPT !.status = "active"]]
            /\ barred' = barred /\ staff[Owner] \in S!Row
        BY <1>0, <3>2 DEF S!CreateOwner, S!history
      <4>2. [staff[Owner] EXCEPT !.status = "active"] \in S!Row
        BY <4>1 DEF S!Row
      <4> QED
        BY <1>0, <4>1, <4>2 DEF S!Active
    <3>3. CASE S!RevokeAccess(c)
      <4> DEFINE q == staffCalls[c].who
      <4>0. q \in S!People /\ staff[q] \in S!Row
        BY <1>0, <2>0 DEF S!Call
      <4>1. /\ staff' = [staff EXCEPT ![q] = [staff[q] EXCEPT !.status = "revoked"]]
            /\ barred' = [barred EXCEPT ![q] = TRUE]
        BY <1>0, <3>3 DEF S!RevokeAccess
      <4>2. /\ [staff[q] EXCEPT !.status = "revoked"] \in S!Row
            /\ [staff[q] EXCEPT !.status = "revoked"].grant = staff[q].grant
            /\ [staff[q] EXCEPT !.status = "revoked"].status = "revoked"
        BY <4>0 DEF S!Row
      <4>3. barred' \in [S!People -> BOOLEAN]
        BY <1>0, <4>1
      <4> HIDE DEF q
      <4> QED
        BY <1>0, <4>0, <4>1, <4>2, <4>3 DEF S!Active
    <3> QED
      BY <1>4, <3>1, <3>2, <3>3 DEF S!CountStaff, S!FindColleague, S!LookAtTier, S!CountOwners,
         S!CreateOwner, S!history
  <2> QED
    BY <1>1, <2>1, <2>2, <2>3
\* A step of one call about one person, the others being as they were.
<1>5. ASSUME NEW c \in Calls, NEW q, S!TypeOK',
             \A d \in Calls : d # c => staffCalls'[d] = staffCalls[d],
             staffCalls[c].pc \in Touching => staffCalls[c].who = q,
             staffCalls'[c].pc \in Touching => staffCalls'[c].who = q,
             \A p \in Colleagues : p # q =>
                /\ staff'[p] = staff[p] /\ decided'[p] = decided[p]
                /\ p \in excused => p \in excused'
                /\ \A i \in S!Open(p)' : i \in S!Open(p) /\ invites'[i].grant = invites[i].grant,
             q \in Colleagues => Unmet(q)' /\ (q \notin excused' => Granted(q)' /\ OneWayIn(q)')
      PROVE  StaffIInv'
  <2>1. ASSUME NEW p \in Colleagues, p # q
        PROVE  Unmet(p)' /\ (p \notin excused' => Granted(p)' /\ OneWayIn(p)')
    <3>1. \A d \in Calls : /\ d \in About(p, Touching)' => staffCalls'[d] = staffCalls[d]
                           /\ d \in About(p, {"withdraw", "issue", "spend"}) =>
                                  staffCalls'[d] = staffCalls[d]
      BY <1>5, <2>1 DEF About, Touching
    <3> QED
      BY <1>5, <2>1, <3>1, Bystanders DEF S!Active
  <2> QED
    BY <1>5, <2>1 DEF StaffIInv
\* Who is excused, and what it means that somebody is not.
<1>6. ASSUME NEW c \in Calls, S!Excuse(c, S!Overlaps(c))
      PROVE  /\ excused' \in SUBSET S!People /\ excused \subseteq excused'
             /\ staffCalls[c].who \notin excused' =>
                   \A d \in About(staffCalls[c].who, Touching) : d = c
  <2>1. staffCalls[c].who \in S!People
    BY <1>0 DEF S!Call
  <2>2. excused' = IF S!Overlaps(c) THEN excused \cup {staffCalls[c].who} ELSE excused
    BY <1>6 DEF S!Excuse
  <2>3. ~S!Overlaps(c) => \A d \in About(staffCalls[c].who, Touching) : d = c
    BY DEF S!Overlaps, About, Touching
  <2> QED
    BY <1>0, <2>1, <2>2, <2>3
<1>8. ASSUME NEW c \in Calls, S!WriteInvited(c)
      PROVE  StaffIInv'
  <2>q. PICK call, q, offer : call = staffCalls[c] /\ q = call.who /\ offer = decided[q] + 1
    OBVIOUS
  <2>0. /\ call \in S!Call /\ q \in S!People /\ call.pc = "write" /\ call.found \in BOOLEAN
        /\ offer \in Nat /\ UNCHANGED <<invites, begun, staffFaults>>
    BY <1>0, <1>8, <2>q DEF S!Call, S!WriteInvited, S!spent
  <2>1. CASE ~call.found /\ staff[q].status # "absent"
    <3>1. S!Ends(c) /\ UNCHANGED <<staff, decided, barred, excused>>
      BY <1>8, <2>q, <2>1 DEF S!WriteInvited, S!history
    <3>2. staffCalls' = [staffCalls EXCEPT ![c] = S!Idle]
      BY <3>1 DEF S!Ends
    <3>3. \A p \in Colleagues : /\ staff'[p].grant = staff[p].grant
                                /\ S!Active(p)' => S!Active(p)
                                /\ staff'[p].status = "absent" => staff[p].status = "absent"
      BY <3>1 DEF S!Active
    <3>4. S!Idle.pc \notin Touching /\ staffCalls[c].pc \notin Touching
      BY <2>q, <2>0, StaffTypes DEF Touching
    <3> QED
      BY <1>0, <1>1, <2>0, <3>1, <3>2, <3>3, <3>4, StaffTypes
  <2>2. CASE call.found \/ staff[q].status = "absent"
    <3>0. PICK pc \in S!Step : pc = IF call.found THEN "withdraw" ELSE "issue"
      BY DEF S!Step
    <3> DEFINE new == [call EXCEPT !.pc = pc, !.grant = offer]
    <3>1. /\ staff' = [staff EXCEPT ![q] = [status |-> "invited", grant |-> offer]]
          /\ staffCalls' = [staffCalls EXCEPT ![c] = new]
          /\ decided' = [decided EXCEPT ![q] = offer] /\ barred' = [barred EXCEPT ![q] = FALSE]
          /\ S!Excuse(c, S!Overlaps(c))
      BY <1>0, <1>8, <2>q, <2>0, <2>2, <3>0 DEF S!WriteInvited
    <3>2. /\ new \in S!Call /\ new.who = q /\ new.grant = offer
          /\ new.pc = IF call.found THEN "withdraw" ELSE "issue"
      <4>1. pc \in S!Step /\ offer \in Nat /\ call \in S!Call
        BY <2>0
      <4>2. new \in S!Call /\ new.who = q /\ new.grant = offer /\ new.pc = pc
        BY <2>q, <4>1 DEF S!Call
      <4> QED
        BY <3>0, <4>2
    <3>3. [status |-> "invited", grant |-> offer] \in S!Row
      BY <2>0 DEF S!Row
    <3> HIDE DEF new
    <3>4. excused' \in SUBSET S!People /\ excused \subseteq excused' /\ barred' \in [S!People -> BOOLEAN]
      BY <1>0, <1>6, <3>1
    <3>5. S!TypeOK'
      BY <1>0, <2>0, <3>1, <3>2, <3>3, <3>4 DEF S!TypeOK
    <3>6. /\ staffCalls'[c] = new /\ \A d \in Calls : d # c => staffCalls'[d] = staffCalls[d]
          /\ \A p : S!Open(p)' = S!Open(p)
          /\ staff'[q].status = "invited" /\ staff'[q].grant = offer /\ decided'[q] = offer
      BY <1>0, <2>0, <3>1 DEF S!Open
    <3>7. ASSUME q \in Colleagues, q \notin excused' PROVE Granted(q)' /\ OneWayIn(q)'
      <4>1. /\ \A d \in About(q, Touching) : d = c
            /\ Unmet(q) /\ Granted(q) /\ OneWayIn(q)
        BY <1>met, <1>6, <2>q, <3>1, <3>4, <3>7
      <4>2. \A d \in About(q, Touching)' : d = c
        BY <3>6, <4>1 DEF About
      <4>3. /\ new.pc = "withdraw" => c \in About(q, {"withdraw"})'
            /\ new.pc = "issue" => S!Open(q) = {}
        BY <2>2, <3>2, <3>6, <4>1 DEF About, Unmet
      <4>4. About(q, {"accept"})' = {} /\ About(q, {"accept", "spend"})' = {}
        BY <3>2, <3>6, <4>2 DEF About, Touching
      <4>5. \A d \in About(q, Inviting)' : d = c
        BY <4>2 DEF About, Inviting, Touching
      <4>6. ~S!Active(q)' /\ invites' = invites
        BY <2>0, <3>6 DEF S!Active
      <4>7. Granted(q)'
        BY <3>2, <3>6, <4>3, <4>4, <4>5, <4>6 DEF Granted
      <4>8. About(q, {"issue"})' # {} => S!Open(q)' = {}
        BY <3>2, <3>6, <4>2, <4>3 DEF About, Touching
      <4> QED
        BY <3>6, <4>1, <4>4, <4>6, <4>7, <4>8 DEF OneWayIn
    <3>8. Unmet(q)'
      BY <3>6 DEF Unmet
    <3>9. \A p \in Colleagues : p # q =>
             /\ staff'[p] = staff[p] /\ decided'[p] = decided[p]
             /\ p \in excused => p \in excused'
             /\ \A i \in S!Open(p)' : i \in S!Open(p) /\ invites'[i].grant = invites[i].grant
      BY <1>0, <2>0, <3>1, <3>4, <3>6
    <3>10. /\ staffCalls[c].pc \in Touching => staffCalls[c].who = q
           /\ staffCalls'[c].pc \in Touching => staffCalls'[c].who = q
      BY <2>q, <3>2, <3>6
    <3> QED
      BY <1>5, <3>5, <3>6, <3>7, <3>8, <3>9, <3>10
  <2> QED
    BY <2>1, <2>2
<1>9. ASSUME NEW c \in Calls, S!WithdrawEarlier(c)
      PROVE  StaffIInv'
  <2>q. PICK call, q : call = staffCalls[c] /\ q = call.who
    OBVIOUS
  <2>0. /\ call \in S!Call /\ q \in S!People /\ call.pc = "withdraw"
        /\ UNCHANGED <<staff, decided, barred, begun, staffFaults>>
        /\ invites' = S!Withdrawn(q) /\ S!Excuse(c, S!Overlaps(c))
        /\ staffCalls' = [staffCalls EXCEPT ![c] = [call EXCEPT !.pc = "issue"]]
    BY <1>0, <1>9, <2>q DEF S!Call, S!WithdrawEarlier, S!Goes, S!spent
  <2>1. PICK new \in S!Call : /\ staffCalls' = [staffCalls EXCEPT ![c] = new]
                              /\ new.pc = "issue" /\ new.who = q /\ new.grant = call.grant
    <3>1. "issue" \in S!Step
      BY DEF S!Step
    <3>2. /\ [call EXCEPT !.pc = "issue"] \in S!Call
          /\ [call EXCEPT !.pc = "issue"].pc = "issue"
          /\ [call EXCEPT !.pc = "issue"].who = call.who
          /\ [call EXCEPT !.pc = "issue"].grant = call.grant
      BY <2>0, <3>1, StaffTypes
    <3> QED
      BY <2>q, <2>0, <3>2
  <2>2. /\ invites' \in [S!Invites -> S!Invite] /\ S!Open(q)' = {}
        /\ \A p : \A i \in S!Open(p)' : i \in S!Open(p) /\ invites'[i] = invites[i]
    <3>1. \A i \in S!Invites : /\ invites'[i] = IF i \in S!Open(q)
                                                THEN [invites[i] EXCEPT !.status = "revoked"]
                                                ELSE invites[i]
                               /\ invites[i] \in S!Invite
      BY <1>0, <2>0 DEF S!Withdrawn
    <3>2. \A i \in S!Open(q) : invites'[i] \in S!Invite /\ invites'[i].status = "revoked"
      <4> SUFFICES ASSUME NEW i \in S!Open(q)
                   PROVE  invites'[i] \in S!Invite /\ invites'[i].status = "revoked"
        OBVIOUS
      <4>1. i \in S!Invites
        BY DEF S!Open
      <4>2. /\ [invites[i] EXCEPT !.status = "revoked"] \in S!Invite
            /\ [invites[i] EXCEPT !.status = "revoked"].status = "revoked"
        BY <3>1, <4>1, StaffTypes
      <4>3. invites'[i] = [invites[i] EXCEPT !.status = "revoked"]
        BY <3>1, <4>1
      <4> QED
        BY <4>2, <4>3
    <3>3. invites' \in [S!Invites -> S!Invite]
      BY <2>0, <3>1, <3>2 DEF S!Withdrawn
    <3> QED
      BY <3>1, <3>2, <3>3 DEF S!Open
  <2>3. excused' \in SUBSET S!People /\ excused \subseteq excused'
    BY <1>6, <2>0
  <2>4. S!TypeOK'
    BY <1>0, <2>0, <2>1, <2>2, <2>3 DEF S!TypeOK
  <2>5. staffCalls'[c] = new /\ \A d \in Calls : d # c => staffCalls'[d] = staffCalls[d]
    BY <1>0, <2>1
  <2>6. c \in About(q, Touching) /\ c \in About(q, Inviting)
    BY <2>q, <2>0 DEF About, Touching, Inviting
  <2>7. ASSUME q \in Colleagues, q \notin excused' PROVE Granted(q)' /\ OneWayIn(q)'
    <3>1. (\A d \in About(q, Touching) : d = c) /\ Granted(q)
      BY <1>met, <1>6, <2>q, <2>0, <2>3, <2>7
    <3>2. \A d \in About(q, Touching)' : d = c
      BY <2>5, <3>1 DEF About
    <3>3. About(q, {"accept"})' = {} /\ About(q, {"accept", "spend"})' = {}
          /\ \A d \in About(q, Inviting)' : d = c
      BY <2>1, <2>5, <3>2 DEF About, Touching, Inviting
    <3>4. call.grant = decided[q] /\ staff[q].grant = decided[q] /\ ~S!Active(q)
      BY <2>q, <2>6, <3>1 DEF Granted
    <3> QED
      BY <2>0, <2>1, <2>2, <2>5, <3>3, <3>4 DEF Granted, OneWayIn, S!Active
  <2>8. q \in Colleagues => Unmet(q)'
    BY <1>met, <2>0, <2>6 DEF Unmet
  <2>9. /\ staffCalls[c].pc \in Touching => staffCalls[c].who = q
        /\ staffCalls'[c].pc \in Touching => staffCalls'[c].who = q
    BY <2>q, <2>1, <2>5
  <2> QED
    BY <1>5, <2>0, <2>2, <2>3, <2>4, <2>5, <2>7, <2>8, <2>9
<1>10. ASSUME NEW c \in Calls, S!Issue(c)
       PROVE  StaffIInv'
  <2>q. PICK call, q, m : /\ call = staffCalls[c] /\ q = call.who
                          /\ m = S!Min({i \in S!Invites : invites[i].status = "none"})
    OBVIOUS
  <2> DEFINE sent == [status |-> "open", for |-> q, grant |-> call.grant]
  <2>0. /\ call \in S!Call /\ q \in S!People /\ call.pc = "issue" /\ call.grant \in Nat
        /\ UNCHANGED <<staff, decided, barred, begun, staffFaults>>
        /\ m \in S!Invites /\ invites[m].status = "none"
        /\ invites' = [invites EXCEPT ![m] = sent] /\ S!Excuse(c, S!Overlaps(c))
        /\ staffCalls' = [staffCalls EXCEPT ![c] = S!Idle]
    <3>1. /\ {i \in S!Invites : invites[i].status = "none"} # {}
          /\ {i \in S!Invites : invites[i].status = "none"} \in SUBSET Nat
      BY <1>10 DEF S!Issue, S!Invites
    <3>2. m \in {i \in S!Invites : invites[i].status = "none"}
      BY <2>q, <3>1, LeastIsOne
    <3> QED
      BY <1>0, <1>10, <2>q, <3>2 DEF S!Issue, S!Ends, S!Call, S!spent
  <2>1. /\ invites' \in [S!Invites -> S!Invite]
        /\ \A p : \A i \in S!Open(p)' : (p = q /\ i = m) \/ (i \in S!Open(p) /\ invites'[i] = invites[i])
        /\ invites'[m].grant = call.grant
    <3>1. sent \in S!Invite
      BY <2>0 DEF S!Invite
    <3>2. /\ invites'[m] = sent /\ \A i \in S!Invites : i # m => invites'[i] = invites[i]
          /\ invites' \in [S!Invites -> S!Invite]
      BY <1>0, <2>0, <3>1
    <3>3. invites'[m].for = q /\ invites'[m].grant = call.grant
      BY <3>2
    <3>4. ASSUME NEW p, NEW i \in S!Open(p)'
          PROVE  (p = q /\ i = m) \/ (i \in S!Open(p) /\ invites'[i] = invites[i])
      <4>1. i \in S!Invites /\ invites'[i].status = "open" /\ invites'[i].for = p
        BY DEF S!Open
      <4>2. CASE i = m
        BY <3>3, <4>1, <4>2
      <4>3. CASE i # m
        <5>1. invites'[i] = invites[i]
          BY <3>2, <4>1, <4>3
        <5> QED
          BY <4>1, <5>1 DEF S!Open
      <4> QED
        BY <4>2, <4>3
    <3> QED
      BY <3>2, <3>3, <3>4
  <2>2. excused' \in SUBSET S!People /\ excused \subseteq excused'
    BY <1>6, <2>0
  <2>3. S!TypeOK'
    BY <1>0, <2>0, <2>1, <2>2, StaffTypes DEF S!TypeOK
  <2>4. staffCalls'[c] = S!Idle /\ \A d \in Calls : d # c => staffCalls'[d] = staffCalls[d]
    BY <1>0, <2>0
  <2>5. c \in About(q, Touching) /\ c \in About(q, Inviting) /\ c \in About(q, {"issue"})
    BY <2>q, <2>0 DEF About, Touching, Inviting
  <2>6. ASSUME q \in Colleagues, q \notin excused' PROVE Granted(q)' /\ OneWayIn(q)'
    <3>1. (\A d \in About(q, Touching) : d = c) /\ Granted(q) /\ OneWayIn(q)
      BY <1>met, <1>6, <2>q, <2>0, <2>2, <2>6
    <3>2. About(q, Touching)' = {}
      BY <2>4, <3>1, StaffTypes DEF About, Touching
    <3>3. \A steps \in {Inviting, {"accept"}, {"accept", "spend"}, {"issue"}} : About(q, steps)' = {}
      BY <3>2 DEF About, Touching, Inviting
    <3>4. /\ call.grant = decided[q] /\ staff[q].grant = decided[q] /\ ~S!Active(q)
          /\ S!Open(q) = {}
      BY <2>q, <2>5, <3>1 DEF Granted, OneWayIn
    <3>5. \A i \in S!Open(q)' : i = m
      BY <2>1, <3>4
    <3> QED
      BY <2>0, <2>1, <3>3, <3>4, <3>5 DEF Granted, OneWayIn, S!Active
  <2>7. q \in Colleagues => Unmet(q)'
    BY <1>met, <2>0, <2>5 DEF Unmet
  <2>8. /\ staffCalls[c].pc \in Touching => staffCalls[c].who = q
        /\ staffCalls'[c].pc \in Touching => staffCalls'[c].who = q
    BY <2>q, <2>4, StaffTypes DEF Touching
  <2>9. \A p \in Colleagues : p # q =>
           \A i \in S!Open(p)' : i \in S!Open(p) /\ invites'[i].grant = invites[i].grant
    BY <2>1
  <2> QED
    BY <1>5, <2>0, <2>2, <2>3, <2>4, <2>6, <2>7, <2>8, <2>9
\* A way in closes by itself.
<1>11. ASSUME NEW gone \in SUBSET S!Invites,
              invites' = [i \in S!Invites |-> IF i \in gone THEN [invites[i] EXCEPT !.status = "revoked"]
                                              ELSE invites[i]],
              UNCHANGED <<staff, staffCalls, decided, barred, excused, begun, staffFaults>>
       PROVE  StaffIInv'
  <2>1. /\ invites' \in [S!Invites -> S!Invite]
        /\ \A p : \A i \in S!Open(p)' : i \in S!Open(p) /\ invites'[i] = invites[i]
    <3>1. \A i \in S!Invites : /\ [invites[i] EXCEPT !.status = "revoked"] \in S!Invite
                               /\ [invites[i] EXCEPT !.status = "revoked"].status = "revoked"
      BY <1>0, StaffTypes
    <3> QED
      BY <1>0, <1>11, <3>1 DEF S!Open
  <2>2. S!TypeOK'
    BY <1>0, <1>11, <2>1 DEF S!TypeOK
  <2>3. \A p \in Colleagues : Unmet(p)' /\ (p \notin excused' => Granted(p)' /\ OneWayIn(p)')
    BY <1>11, <2>1, Bystanders DEF About, S!Active
  <2> QED
    BY <2>2, <2>3 DEF StaffIInv
<1>12. ASSUME NEW p \in Colleagues, S!RevokeInvite(p)
       PROVE  StaffIInv'
  <2>1. S!Open(p) \in SUBSET S!Invites
    BY DEF S!Open
  <2> QED
    BY <1>11, <1>12, <2>1 DEF S!RevokeInvite, S!Withdrawn, S!history, S!spent
<1>13. ASSUME NEW i \in S!Invites, S!ExpireInvite(i)
       PROVE  StaffIInv'
  <2>1. invites' = [j \in S!Invites |-> IF j \in {i} THEN [invites[j] EXCEPT !.status = "revoked"]
                                        ELSE invites[j]]
    BY <1>0, <1>13 DEF S!ExpireInvite
  <2> QED
    BY <1>11, <1>13, <2>1 DEF S!ExpireInvite, S!history, S!spent
\* An invitation is accepted: the call, the row, and then the invitation.
<1>14. ASSUME NEW c \in Calls, NEW i \in S!Invites, S!BeginAccept(c, i)
       PROVE  StaffIInv'
  <2>q. PICK q : q = invites[i].for
    OBVIOUS
  <2>0. /\ i \in S!Open(q) /\ invites[i] \in S!Invite /\ q \in S!People
        /\ UNCHANGED <<staff, invites, decided, barred, excused, staffFaults>>
        /\ staffCalls[c] = S!Idle /\ begun' \in 0..MaxCalls
    BY <1>0, <1>14, <2>q DEF S!BeginAccept, S!Begin, S!Open, S!Invite, S!history
  <2>1. PICK new \in S!Call : /\ staffCalls' = [staffCalls EXCEPT ![c] = new]
                              /\ new.pc = "accept" /\ new.who = q /\ new.invite = i
                              /\ new.grant = invites[i].grant
    <3> DEFINE new == [S!Idle EXCEPT !.pc = "accept", !.who = q, !.invite = i,
                                     !.grant = invites[i].grant]
    <3>1. staffCalls' = [staffCalls EXCEPT ![c] = new]
      BY <1>14, <2>q DEF S!BeginAccept, S!Begin
    <3>2. invites[i].grant \in Nat /\ "accept" \in S!Step
      BY <2>0 DEF S!Invite, S!Step
    <3>3. /\ new \in S!Call /\ new.pc = "accept" /\ new.who = q /\ new.invite = i
          /\ new.grant = invites[i].grant
      BY <2>0, <3>2 DEF S!Idle, S!Call, S!None
    <3> QED
      BY <3>1, <3>3
  <2>2. S!TypeOK'
    BY <1>0, <2>0, <2>1 DEF S!TypeOK
  <2>3. /\ staffCalls'[c] = new /\ \A d \in Calls : d # c => staffCalls'[d] = staffCalls[d]
        /\ \A p : S!Open(p)' = S!Open(p)
    BY <1>0, <2>0, <2>1 DEF S!Open
  <2>4. ASSUME q \in Colleagues, q \notin excused' PROVE Granted(q)' /\ OneWayIn(q)'
    <3>1. Granted(q) /\ OneWayIn(q)
      BY <1>met, <2>0, <2>4
    <3>2. \A steps \in {Inviting, {"withdraw"}, {"issue"}, {"spend"}} :
             About(q, steps)' = About(q, steps)
      BY <2>0, <2>1, <2>3, StaffTypes DEF About, Inviting
    <3>3. \A steps \in {{"accept"}, {"accept", "spend"}} : \A d \in About(q, steps)' :
             d = c \/ (d \in About(q, steps) /\ staffCalls'[d] = staffCalls[d])
      BY <2>3 DEF About
    <3>4. \A d \in About(q, Inviting) : staffCalls'[d] = staffCalls[d]
      BY <2>0, <2>3, StaffTypes DEF About, Inviting
    <3>5. S!Open(q) \subseteq {i}
      BY <2>0, <3>1 DEF OneWayIn
    <3>6. new.grant = decided[q] \/ About(q, Inviting) # {}
      BY <2>0, <2>1, <3>1 DEF Granted, About, Inviting
    <3>7. Granted(q)'
      BY <2>0, <2>3, <3>1, <3>2, <3>3, <3>4, <3>6 DEF Granted, S!Active
    <3>8. OneWayIn(q)'
      BY <2>0, <2>1, <2>3, <3>1, <3>2, <3>3, <3>5 DEF OneWayIn, S!Active
    <3> QED
      BY <3>7, <3>8
  <2>5. q \in Colleagues => Unmet(q)'
    BY <1>met, <2>0 DEF Unmet
  <2>6. /\ staffCalls[c].pc \in Touching => staffCalls[c].who = q
        /\ staffCalls'[c].pc \in Touching => staffCalls'[c].who = q
    BY <2>0, <2>1, <2>3, StaffTypes DEF Touching
  <2> QED
    BY <1>5, <2>0, <2>2, <2>3, <2>4, <2>5, <2>6
<1>15. ASSUME NEW c \in Calls, S!ActivateColleague(c)
       PROVE  StaffIInv'
  <2>q. PICK call, q : call = staffCalls[c] /\ q = call.who
    OBVIOUS
  <2>0. /\ call \in S!Call /\ q \in S!People /\ call.pc = "accept" /\ call.grant \in Nat
        /\ staff' = [staff EXCEPT ![q] = [status |-> "active", grant |-> call.grant]]
        /\ S!Excuse(c, S!Overlaps(c))
        /\ staffCalls' = [staffCalls EXCEPT ![c] = [call EXCEPT !.pc = "spend"]]
        /\ UNCHANGED <<invites, decided, barred, begun, staffFaults>>
    BY <1>0, <1>15, <2>q DEF S!Call, S!ActivateColleague, S!Goes, S!spent
  <2>1. PICK new \in S!Call : /\ staffCalls' = [staffCalls EXCEPT ![c] = new]
                              /\ new.pc = "spend" /\ new.who = q /\ new.invite = call.invite
    <3>1. "spend" \in S!Step
      BY DEF S!Step
    <3>2. /\ [call EXCEPT !.pc = "spend"] \in S!Call
          /\ [call EXCEPT !.pc = "spend"].pc = "spend"
          /\ [call EXCEPT !.pc = "spend"].who = call.who
          /\ [call EXCEPT !.pc = "spend"].invite = call.invite
      BY <2>0, <3>1, StaffTypes
    <3> QED
      BY <2>q, <2>0, <3>2
  <2>2. [status |-> "active", grant |-> call.grant] \in S!Row
    BY <2>0 DEF S!Row
  <2>3. /\ staffCalls'[c] = new /\ \A d \in Calls : d # c => staffCalls'[d] = staffCalls[d]
        /\ \A p : S!Open(p)' = S!Open(p)
        /\ staff'[q].status = "active" /\ staff'[q].grant = call.grant
        /\ \A p \in Colleagues : p # q => staff'[p] = staff[p]
    BY <1>0, <2>0, <2>1 DEF S!Open
  <2>4. excused' \in SUBSET S!People /\ excused \subseteq excused'
    BY <1>6, <2>0
  <2>5. S!TypeOK'
    BY <1>0, <2>0, <2>1, <2>2, <2>4 DEF S!TypeOK
  <2>6. ASSUME q \in Colleagues, q \notin excused' PROVE Granted(q)' /\ OneWayIn(q)'
    <3>1. (\A d \in About(q, Touching) : d = c) /\ Granted(q) /\ OneWayIn(q)
      BY <1>met, <1>6, <2>q, <2>0, <2>4, <2>6
    <3>2. \A d \in About(q, Touching)' : d = c
      BY <2>3, <3>1 DEF About
    <3>3. /\ \A steps \in {Inviting, {"accept"}, {"issue"}} : About(q, steps)' = {}
          /\ \A d \in About(q, {"accept", "spend"})' : d = c
          /\ c \in About(q, {"spend"})'
      BY <2>1, <2>3, <3>2 DEF About, Touching, Inviting
    <3>4. About(q, Inviting) = {} /\ About(q, {"withdraw"}) = {}
      BY <2>q, <2>0, <3>1 DEF About, Touching, Inviting
    <3>5. c \in About(q, {"accept"}) /\ c \in About(q, {"accept", "spend"})
      BY <2>q, <2>0 DEF About
    <3>6. /\ call.grant = decided[q] /\ S!Open(q) \subseteq {call.invite}
          /\ \A i \in S!Open(q) : invites[i].grant = decided[q]
      BY <2>q, <3>1, <3>4, <3>5 DEF Granted, OneWayIn
    <3>7. Granted(q)'
      BY <2>0, <2>3, <3>3, <3>6 DEF Granted
    <3>8. OneWayIn(q)'
      BY <2>0, <2>1, <2>3, <3>1, <3>3, <3>6 DEF OneWayIn
    <3> QED
      BY <3>7, <3>8
  <2>7. Unmet(q)'
    BY <2>3 DEF Unmet
  <2>8. /\ staffCalls[c].pc \in Touching => staffCalls[c].who = q
        /\ staffCalls'[c].pc \in Touching => staffCalls'[c].who = q
    BY <2>q, <2>1, <2>3
  <2> QED
    BY <1>5, <2>0, <2>3, <2>4, <2>5, <2>6, <2>7, <2>8
<1>16. ASSUME NEW c \in Calls, S!SpendInvite(c)
       PROVE  StaffIInv'
  <2>q. PICK call, q : call = staffCalls[c] /\ q = call.who
    OBVIOUS
  <2>0. /\ call \in S!Call /\ q \in S!People /\ call.pc = "spend"
        /\ invites' = [invites EXCEPT ![call.invite].status = "used"]
        /\ staffCalls' = [staffCalls EXCEPT ![c] = S!Idle]
        /\ UNCHANGED <<staff, decided, barred, excused, begun, staffFaults>>
    BY <1>0, <1>16, <2>q DEF S!Call, S!SpendInvite, S!Ends, S!history, S!spent
  <2>1. /\ invites' \in [S!Invites -> S!Invite] /\ call.invite \notin S!Open(q)'
        /\ \A p : \A i \in S!Open(p)' : i \in S!Open(p) /\ invites'[i] = invites[i]
    <3>1. CASE call.invite \in S!Invites
      <4>1. invites' = [invites EXCEPT ![call.invite] = [invites[call.invite] EXCEPT !.status = "used"]]
        BY <1>0, <2>0
      <4>2. invites[call.invite] \in S!Invite
        BY <1>0, <3>1
      <4>3. /\ [invites[call.invite] EXCEPT !.status = "used"] \in S!Invite
            /\ [invites[call.invite] EXCEPT !.status = "used"].status = "used"
        BY <4>2, StaffTypes
      <4> QED
        BY <1>0, <3>1, <4>1, <4>3 DEF S!Open
    <3>2. CASE call.invite \notin S!Invites
      <4>1. invites' = invites
        BY <1>0, <2>0, <3>2
      <4> QED
        BY <1>0, <3>2, <4>1 DEF S!Open
    <3> QED
      BY <3>1, <3>2
  <2>2. S!TypeOK'
    BY <1>0, <2>0, <2>1, StaffTypes DEF S!TypeOK
  <2>3. staffCalls'[c] = S!Idle /\ \A d \in Calls : d # c => staffCalls'[d] = staffCalls[d]
    BY <1>0, <2>0
  <2>4. c \in About(q, Touching) /\ c \in About(q, {"accept", "spend"})
    BY <2>q, <2>0 DEF About, Touching
  <2>5. ASSUME q \in Colleagues, q \notin excused' PROVE Granted(q)' /\ OneWayIn(q)'
    <3>1. Granted(q) /\ OneWayIn(q)
      BY <1>met, <2>0, <2>5
    <3>2. S!Open(q)' = {}
      BY <2>q, <2>1, <2>4, <3>1 DEF OneWayIn
    <3>3. /\ About(q, Inviting)' = About(q, Inviting)
          /\ \A d \in About(q, Inviting) : staffCalls'[d] = staffCalls[d]
          /\ \A d \in About(q, {"accept"})' :
                d \in About(q, {"accept"}) /\ staffCalls'[d] = staffCalls[d]
      BY <2>q, <2>0, <2>3, StaffTypes DEF About, Inviting
    <3>4. Granted(q)'
      BY <2>0, <3>1, <3>2, <3>3 DEF Granted, S!Active
    <3> QED
      BY <3>2, <3>4 DEF OneWayIn
  <2>6. q \in Colleagues => Unmet(q)'
    BY <1>met, <2>0, <2>4 DEF Unmet
  <2>7. /\ staffCalls[c].pc \in Touching => staffCalls[c].who = q
        /\ staffCalls'[c].pc \in Touching => staffCalls'[c].who = q
    BY <2>q, <2>3, StaffTypes DEF Touching
  <2> QED
    BY <1>5, <2>0, <2>1, <2>2, <2>3, <2>5, <2>6, <2>7
\* What is granted changes: for somebody who is not invited, at once.
<1>17. ASSUME NEW c \in Calls, S!SetPermissions(c)
       PROVE  StaffIInv'
  <2>q. PICK call, q, offer : call = staffCalls[c] /\ q = call.who /\ offer = decided[q] + 1
    OBVIOUS
  <2>0. /\ call \in S!Call /\ q \in S!People /\ call.pc = "grant" /\ offer \in Nat
        /\ decided' = [decided EXCEPT ![q] = offer]
        /\ staff' = [staff EXCEPT ![q].grant = offer]
        /\ excused' = IF S!Open(q) # {} \/ S!Overlaps(c) THEN excused \cup {q} ELSE excused
        /\ staffCalls' = [staffCalls EXCEPT ![c] = S!Idle]
        /\ UNCHANGED <<invites, barred, begun, staffFaults>>
    BY <1>0, <1>17, <2>q DEF S!Call, S!SetPermissions, S!Ends, S!Excuse, S!spent
  <2>1. PICK new \in S!Row : /\ staff' = [staff EXCEPT ![q] = new]
                             /\ new.grant = offer /\ new.status = staff[q].status
    <3>1. staff[q] \in S!Row /\ staff' = [staff EXCEPT ![q] = [staff[q] EXCEPT !.grant = offer]]
      BY <1>0, <2>0
    <3>2. /\ [staff[q] EXCEPT !.grant = offer] \in S!Row
          /\ [staff[q] EXCEPT !.grant = offer].grant = offer
          /\ [staff[q] EXCEPT !.grant = offer].status = staff[q].status
      BY <2>0, <3>1 DEF S!Row
    <3> QED
      BY <3>1, <3>2
  <2>2. excused' \in SUBSET S!People /\ excused \subseteq excused'
    BY <1>0, <2>0
  <2>3. S!TypeOK'
    BY <1>0, <2>0, <2>1, <2>2, StaffTypes DEF S!TypeOK
  <2>4. /\ staffCalls'[c] = S!Idle /\ \A d \in Calls : d # c => staffCalls'[d] = staffCalls[d]
        /\ \A p : S!Open(p)' = S!Open(p)
        /\ staff'[q] = new /\ decided'[q] = offer
        /\ \A p \in Colleagues : p # q => staff'[p] = staff[p] /\ decided'[p] = decided[p]
    BY <1>0, <2>0, <2>1 DEF S!Open
  <2>5. About(q, Touching)' \subseteq About(q, Touching) \ {c}
    BY <2>0, <2>q, <2>4, StaffTypes DEF About, Touching
  <2>6. ASSUME q \in Colleagues, q \notin excused' PROVE Granted(q)' /\ OneWayIn(q)'
    <3>1. S!Open(q) = {} /\ ~S!Overlaps(c)
      BY <2>0, <2>6
    <3>2. About(q, Touching) \subseteq {c}
      BY <2>q, <3>1 DEF S!Overlaps, About, Touching
    <3>3. \A steps \in {Inviting, {"accept"}, {"accept", "spend"}, {"issue"}} : About(q, steps)' = {}
      BY <2>5, <3>2 DEF About, Touching, Inviting
    <3> QED
      BY <2>1, <2>4, <3>1, <3>3 DEF Granted, OneWayIn
  <2>7. q \in Colleagues => Unmet(q)'
    BY <1>met, <2>1, <2>4, <2>5 DEF Unmet
  <2>8. /\ staffCalls[c].pc \in Touching => staffCalls[c].who = q
        /\ staffCalls'[c].pc \in Touching => staffCalls'[c].who = q
    BY <2>q, <2>4, StaffTypes DEF Touching
  <2> QED
    BY <1>5, <2>0, <2>2, <2>3, <2>4, <2>6, <2>7, <2>8
<1>18. ASSUME NEW c \in Calls, S!Dies(c)
       PROVE  StaffIInv'
  <2>q. PICK call, q : call = staffCalls[c] /\ q = call.who
    OBVIOUS
  <2>0. /\ call \in S!Call /\ q \in S!People /\ staffFaults' \in 0..MaxDeaths
        /\ excused' = IF call.pc \in {"withdraw", "issue", "spend"} THEN excused \cup {q} ELSE excused
        /\ staffCalls' = [staffCalls EXCEPT ![c] = S!Idle]
        /\ UNCHANGED <<staff, invites, decided, barred, begun>>
    BY <1>0, <1>18, <2>q DEF S!Call, S!Dies, S!Ends, S!Excuse
  <2>1. excused' \in SUBSET S!People /\ excused \subseteq excused'
    BY <1>0, <2>0
  <2>2. S!TypeOK'
    BY <1>0, <2>0, <2>1, StaffTypes DEF S!TypeOK
  <2>3. /\ staffCalls'[c] = S!Idle /\ \A d \in Calls : d # c => staffCalls'[d] = staffCalls[d]
        /\ \A p : S!Open(p)' = S!Open(p)
    BY <1>0, <2>0 DEF S!Open
  <2>4. About(q, Touching)' \subseteq About(q, Touching)
    BY <2>3, StaffTypes DEF About, Touching
  <2>5. q \in Colleagues => Unmet(q)'
    BY <1>met, <2>0, <2>3, <2>4 DEF Unmet
  <2>6. ASSUME q \in Colleagues, q \notin excused' PROVE Granted(q)' /\ OneWayIn(q)'
    <3>1. call.pc \notin {"withdraw", "issue", "spend"}
      BY <2>0, <2>6
    <3>2. \A d \in Calls : /\ d \in About(q, Touching)' => staffCalls'[d] = staffCalls[d]
                           /\ d \in About(q, {"withdraw", "issue", "spend"}) =>
                                  staffCalls'[d] = staffCalls[d]
      BY <2>q, <2>3, <3>1, StaffTypes DEF About, Touching
    <3>3. \A i \in S!Open(q)' : i \in S!Open(q) /\ invites'[i].grant = invites[i].grant
      BY <2>0, <2>3
    <3> QED
      BY <2>0, <2>1, <2>6, <3>2, <3>3, Bystanders DEF S!Active
  <2>7. /\ staffCalls[c].pc \in Touching => staffCalls[c].who = q
        /\ staffCalls'[c].pc \in Touching => staffCalls'[c].who = q
    BY <2>q, <2>3, StaffTypes DEF Touching
  <2> QED
    BY <1>5, <2>0, <2>1, <2>2, <2>3, <2>5, <2>6, <2>7
<1>19. CASE UNCHANGED S!vars
  <2>1. UNCHANGED <<staff, invites, staffCalls, decided, barred, excused, begun, staffFaults>>
    BY <1>19 DEF S!vars, S!history, S!spent
  <2>2. S!TypeOK'
    BY <1>0, <2>1 DEF S!TypeOK
  <2>3. \A p \in Colleagues : Unmet(p)' /\ (p \notin excused' => Granted(p)' /\ OneWayIn(p)')
    BY <2>1, Bystanders DEF About, S!Open, S!Active
  <2> QED
    BY <2>2, <2>3 DEF StaffIInv
<1>20. ASSUME NEW c \in Calls, S!BeginSetup(c) \/ S!Proceeds(c) \/ S!Dies(c)
       PROVE  StaffIInv'
  BY <1>0, <1>3, <1>4, <1>8, <1>9, <1>10, <1>15, <1>16, <1>17, <1>18, <1>20 DEF S!Proceeds
<1> QED
  BY <1>0, <1>3, <1>12, <1>13, <1>14, <1>19, <1>20 DEF S!Next

LEMMA StaffInvariant == S!Spec => []StaffIInv
<1>1. S!Init => StaffIInv
  <2> SUFFICES ASSUME S!Init PROVE StaffIInv
    OBVIOUS
  <2>1. S!TypeOK
    BY StaffAssumption, StaffTypes DEF S!StaffAssumption, S!Init, S!TypeOK, S!Row
  <2>2. /\ \A p, steps : steps \subseteq Touching => About(p, steps) = {}
        /\ \A p : S!Open(p) = {}
    BY StaffTypes DEF S!Init, About, Touching, S!Open
  <2>3. \A p \in Colleagues : staff[p].grant = decided[p]
    BY DEF S!Init, S!People
  <2>4. \A steps \in {Inviting, {"accept"}, {"issue"}, {"accept", "spend"}} : steps \subseteq Touching
    BY DEF Inviting, Touching
  <2> QED
    BY <2>1, <2>2, <2>3, <2>4 DEF StaffIInv, Unmet, Granted, OneWayIn
<1> QED
  BY <1>1, StaffKept, PTL DEF S!Spec

\* What an active colleague may do is what was last decided for them, and once their call is over no
\* invitation of theirs is left to be accepted ("Two live invitations is two ways in",
\* staff.service.ts:210), unless calls about them crossed or died: for any number of colleagues,
\* invitations and calls.
THEOREM DecisionsStand == S!Spec => []LastDecisionStands
<1>1. StaffIInv => LastDecisionStands
  <2> SUFFICES ASSUME StaffIInv, NEW p \in Colleagues, S!Active(p), p \notin excused
               PROVE  /\ staff[p].grant = decided[p]
                      /\ (\A c \in Calls : staffCalls[c].who # p) => S!Open(p) = {}
    BY DEF LastDecisionStands, S!LastDecisionStands
  <2>1. Granted(p) /\ OneWayIn(p)
    BY DEF StaffIInv
  <2> QED
    BY <2>1 DEF Granted, OneWayIn, About
<1> QED
  BY <1>1, StaffInvariant, PTL

----------------------------------------------------------------------------
(* The chat.                                                               *)

\* What a receipt shows as done is done; what is asked for that is no longer waiting is on the receipt.
Says(r) == r.result = "success" => r.tool.names \ r.partial \subseteq r.changed \cup r.lost
Covers(w, call) ==
    /\ call.names \subseteq w.left \cup w.hand \cup w.partial \cup w.changed \cup w.lost
    /\ w.step = "next" => w.hand = {}
    /\ w.step = "write" => \E n \in Names : w.hand = {n}
    /\ w.step = "list" => w.left = {} /\ w.hand = {}
HonestTurn(turn) ==
    /\ \A r \in Q!ToSet(turn.receipts) : Says(r)
    /\ turn.pc \in {"idle", "context", "first", "refused"} => turn.receipts = <<>>
    /\ turn.pc = "tools" => turn.plan # <<>>
    /\ turn.work.step # "none" => turn.pc = "tools" /\ Covers(turn.work, Head(turn.plan))
ListsTyped == rows \in [Q!Lists -> [Names -> Nat]] /\ made \in Nat
ChatIInv ==
    /\ ListsTyped
    /\ questions \in [Questions -> Q!Turn]
    /\ \A t \in Questions : HonestTurn(questions[t])

LEMMA ToolTypes ==
    /\ \A call \in Q!Tool : /\ call.names \in SUBSET Names /\ call.list \in Q!Lists
                            /\ call.tool = "read" => call.names = {}
    /\ Q!NoWork \in Q!Work /\ Q!NoWork.step = "none"
    /\ Q!Idle \in Q!Turn /\ HonestTurn(Q!Idle)
<1>1. \A call \in Q!Tool : /\ call.names \in SUBSET Names /\ call.list \in Q!Lists
                           /\ call.tool = "read" => call.names = {}
  BY DEF Q!Tool
<1>2. Q!NoWork \in Q!Work /\ Q!NoWork.step = "none"
  BY DEF Q!NoWork, Q!Work, Q!Step, Q!Gone
<1>3. Q!Idle \in Q!Turn
  BY <1>2 DEF Q!Idle, Q!Turn
<1>4. HonestTurn(Q!Idle)
  BY <1>2 DEF Q!Idle, HonestTurn, Q!ToSet
<1> QED
  BY <1>1, <1>2, <1>3, <1>4

LEMMA BatchIsASequence == \A batch \in Q!Batch : batch \in Seq(Q!Tool)
<1>1. 0..MaxTools \subseteq Nat
  BY ChatAssumption DEF Q!ChatAssumption
<1> QED
  BY <1>1, SeqDef DEF Q!Batch

\* What is put on the end of a list is added to it.
LEMMA OneMoreReceipt ==
    ASSUME NEW receipts \in Seq(Q!Receipt), NEW r \in Q!Receipt
    PROVE  /\ Append(receipts, r) \in Seq(Q!Receipt)
           /\ \A x \in Q!ToSet(Append(receipts, r)) : x \in Q!ToSet(receipts) \/ x = r
BY DEF Q!ToSet

\* The next receipt is honest when the tool says no more than it did.
LEMMA Received ==
    ASSUME NEW turn \in Q!Turn, HonestTurn(turn), turn.pc = "tools",
           NEW result \in {"success", "failed"}, NEW broke \in BOOLEAN,
           result = "success" => Head(turn.plan).names \ turn.work.partial
                                     \subseteq turn.work.changed \cup turn.work.lost,
           NEW new, new = [turn EXCEPT
              !.receipts = Append(@, [tool |-> Head(turn.plan), result |-> result,
                                      partial |-> turn.work.partial, changed |-> turn.work.changed,
                                      lost |-> turn.work.lost, broke |-> broke]),
              !.plan = Tail(@),
              !.pc = IF Len(turn.plan) = 1 THEN "after" ELSE "tools",
              !.work = Q!NoWork]
    PROVE  new \in Q!Turn /\ HonestTurn(new)
<1> DEFINE r == [tool |-> Head(turn.plan), result |-> result,
                 partial |-> turn.work.partial, changed |-> turn.work.changed,
                 lost |-> turn.work.lost, broke |-> broke]
<1>1. /\ turn.plan \in Seq(Q!Tool) /\ turn.plan # <<>> /\ turn.receipts \in Seq(Q!Receipt)
      /\ turn.work \in Q!Work
  BY DEF HonestTurn, Q!Turn
<1>2. /\ Head(turn.plan) \in Q!Tool /\ Tail(turn.plan) \in Seq(Q!Tool)
      /\ Len(turn.plan) # 1 => Tail(turn.plan) # <<>>
  <2>1. /\ Head(turn.plan) \in Q!Tool /\ Tail(turn.plan) \in Seq(Q!Tool)
        /\ Len(Tail(turn.plan)) = Len(turn.plan) - 1
    BY <1>1, HeadTailProperties
  <2>2. Len(turn.plan) \in Nat
    BY <1>1, LenProperties
  <2>3. Len(turn.plan) # 1 => Len(Tail(turn.plan)) # 0
    BY <2>1, <2>2
  <2>4. Len(turn.plan) # 1 => Tail(turn.plan) # <<>>
    BY <2>3, EmptySeq
  <2> QED
    BY <2>1, <2>4
<1>3. r \in Q!Receipt /\ Says(r)
  BY <1>1, <1>2 DEF Q!Receipt, Q!Work, Says
<1> HIDE DEF r
<1>4. PICK pc : pc = IF Len(turn.plan) = 1 THEN "after" ELSE "tools"
  OBVIOUS
<1>5. /\ Append(turn.receipts, r) \in Seq(Q!Receipt)
      /\ \A x \in Q!ToSet(Append(turn.receipts, r)) : Says(x)
  BY <1>1, <1>3, OneMoreReceipt DEF HonestTurn
<1>6. new = [turn EXCEPT !.receipts = Append(turn.receipts, r), !.plan = Tail(turn.plan), !.pc = pc,
                         !.work = Q!NoWork]
  BY <1>4 DEF r
<1>7. /\ new.receipts = Append(turn.receipts, r) /\ new.plan = Tail(turn.plan) /\ new.pc = pc
      /\ new.work = Q!NoWork /\ new \in Q!Turn
  BY <1>2, <1>4, <1>5, <1>6, ToolTypes DEF Q!Turn
<1>8. new.pc = "tools" => new.plan # <<>>
  BY <1>2, <1>4, <1>7
<1> QED
  BY <1>4, <1>5, <1>7, <1>8, ToolTypes DEF HonestTurn


LEMMA TurnKept ==
    ASSUME ChatIInv, ListsTyped', NEW t \in Questions, NEW turn \in Q!Turn, HonestTurn(turn),
           questions' = [questions EXCEPT ![t] = turn]
    PROVE  ChatIInv'
<1>1. questions' \in [Questions -> Q!Turn]
  BY DEF ChatIInv
<1>2. \A u \in Questions : questions'[u] = IF u = t THEN turn ELSE questions[u]
  BY DEF ChatIInv
<1>3. \A u \in Questions : HonestTurn(questions'[u])
  BY <1>2 DEF ChatIInv
<1> QED
  BY <1>1, <1>3 DEF ChatIInv

\* A question that goes on, in between its tools.
LEMMA GoesKept ==
    ASSUME ChatIInv, ListsTyped', NEW t \in Questions,
           questions[t].pc # "tools",
           NEW pc \in {"context", "first", "after", "second", "store", "done", "refused", "died"},
           pc \in {"context", "first", "refused"} => questions[t].receipts = <<>>,
           Q!Goes(t, pc)
    PROVE  ChatIInv'
<1>1. PICK turn : turn = questions[t]
  OBVIOUS
<1>2. turn \in Q!Turn /\ HonestTurn(turn)
  BY <1>1 DEF ChatIInv
<1>3. PICK new : new = [turn EXCEPT !.pc = pc, !.retried = FALSE]
  OBVIOUS
<1>4. /\ new.pc = pc /\ new.receipts = turn.receipts /\ new.work = turn.work
      /\ new \in Q!Turn
  BY <1>2, <1>3 DEF Q!Turn
<1>5. HonestTurn(new)
  BY <1>1, <1>2, <1>4 DEF HonestTurn
<1>6. questions' = [questions EXCEPT ![t] = new]
  BY <1>1, <1>3 DEF Q!Goes
<1> QED
  BY <1>4, <1>5, <1>6, TurnKept

\* A tool that goes on covers what it was asked for.
LEMMA WorkKept ==
    ASSUME ChatIInv, ListsTyped', NEW t \in Questions, questions[t].pc = "tools",
           NEW w \in Q!Work, Covers(w, Q!Call(t)), Q!Works(t, w)
    PROVE  ChatIInv'
<1>1. PICK turn : turn = questions[t]
  OBVIOUS
<1>2. turn \in Q!Turn /\ HonestTurn(turn) /\ turn.pc = "tools" /\ Covers(w, Head(turn.plan))
  BY <1>1 DEF ChatIInv, Q!Call
<1>3. PICK new : new = [turn EXCEPT !.work = w]
  OBVIOUS
<1>4. /\ new.pc = "tools" /\ new.receipts = turn.receipts /\ new.plan = turn.plan /\ new.work = w
      /\ new \in Q!Turn
  BY <1>2, <1>3 DEF Q!Turn
<1>5. HonestTurn(new)
  BY <1>2, <1>4 DEF HonestTurn
<1>6. questions' = [questions EXCEPT ![t] = new]
  BY <1>1, <1>3 DEF Q!Works
<1> QED
  BY <1>4, <1>5, <1>6, TurnKept

LEMMA ReceiveKept ==
    ASSUME ChatIInv, ListsTyped', NEW t \in Questions, questions[t].pc = "tools",
           NEW result \in {"success", "failed"}, NEW broke \in BOOLEAN,
           result = "success" => Q!Call(t).names \ questions[t].work.partial
                                \subseteq questions[t].work.changed \cup questions[t].work.lost,
           Q!Receive(t, result, broke)
    PROVE  ChatIInv'
<1>1. PICK turn : turn = questions[t]
  OBVIOUS
<1>2. /\ turn \in Q!Turn /\ HonestTurn(turn) /\ turn.pc = "tools"
      /\ result = "success" => Head(turn.plan).names \ turn.work.partial
                                  \subseteq turn.work.changed \cup turn.work.lost
  BY <1>1 DEF ChatIInv, Q!Call
<1>3. PICK new : new = [turn EXCEPT
              !.receipts = Append(@, [tool |-> Head(turn.plan), result |-> result,
                                      partial |-> turn.work.partial, changed |-> turn.work.changed,
                                      lost |-> turn.work.lost, broke |-> broke]),
              !.plan = Tail(@),
              !.pc = IF Len(turn.plan) = 1 THEN "after" ELSE "tools",
              !.work = Q!NoWork]
  OBVIOUS
<1>4. new \in Q!Turn /\ HonestTurn(new)
  BY <1>2, <1>3, Received
<1>5. questions' = [questions EXCEPT ![t] = new]
  BY <1>1, <1>3 DEF Q!Receive
<1> QED
  BY <1>4, <1>5, TurnKept

\* A question in between its tools has nothing in hand; a tool at work has asked for something.
LEMMA ToolAtWork ==
    ASSUME ChatIInv, NEW t \in Questions, questions[t].pc = "tools"
    PROVE  /\ questions[t].work \in Q!Work /\ Q!Call(t) \in Q!Tool
           /\ Q!Call(t).names \in SUBSET Names /\ Q!Call(t).list \in Q!Lists
           /\ Q!Call(t).tool = "read" => Q!Call(t).names = {}
           /\ questions[t].work.step # "none" => Covers(questions[t].work, Q!Call(t))
<1>1. PICK turn : turn = questions[t]
  OBVIOUS
<1>2. turn \in Q!Turn /\ HonestTurn(turn) /\ turn.pc = "tools"
  BY <1>1 DEF ChatIInv
<1>3. turn.work \in Q!Work /\ turn.plan \in Seq(Q!Tool) /\ turn.plan # <<>>
  BY <1>2 DEF Q!Turn, HonestTurn
<1>4. Head(turn.plan) \in Q!Tool
  BY <1>3, HeadTailProperties
<1>5. turn.work.step # "none" => Covers(turn.work, Head(turn.plan))
  BY <1>2 DEF HonestTurn
<1> QED
  BY <1>1, <1>3, <1>4, <1>5, ToolTypes DEF Q!Call

LEMMA StartToolKept == ASSUME ChatIInv, NEW t \in Questions, Q!StartTool(t) PROVE ChatIInv'
<1>1. questions[t].pc = "tools" /\ ListsTyped'
  BY DEF Q!StartTool, Q!At, ChatIInv, ListsTyped
<1>2. CASE Q!Call(t).tool = "read"
  <2>1. Q!Receive(t, "success", FALSE)
    BY <1>2 DEF Q!StartTool
  <2>2. Q!Call(t).names = {}
    BY <1>1, <1>2, ToolAtWork
  <2> QED
    BY <1>1, <2>1, <2>2, ReceiveKept
<1>3. CASE Q!Call(t).tool # "read"
  <2>1. PICK call : call = Q!Call(t)
    OBVIOUS
  <2>2. PICK seen : seen = rows[call.list]
    OBVIOUS
  <2>3. call.names \in SUBSET Names /\ call.list \in Q!Lists
    BY <1>1, <2>1, ToolAtWork
  <2>4. seen \in [Names -> Nat]
    BY <2>2, <2>3 DEF ChatIInv, ListsTyped
  <2>5. PICK w : w = [Q!NoWork EXCEPT !.step = "next", !.left = call.names, !.seen = seen]
    OBVIOUS
  <2>6. w \in Q!Work /\ w.step = "next" /\ w.left = call.names /\ w.hand = {}
    BY <2>3, <2>4, <2>5 DEF Q!Work, Q!NoWork, Q!Step, Q!Gone
  <2>7. Covers(w, call)
    BY <2>6 DEF Covers
  <2>8. Q!Works(t, w)
    BY <1>3, <2>1, <2>2, <2>5 DEF Q!StartTool
  <2> QED
    BY <1>1, <2>1, <2>6, <2>7, <2>8, WorkKept
<1> QED
  BY <1>2, <1>3

LEMMA LookKept ==
    ASSUME ChatIInv, NEW t \in Questions, NEW n \in Names, Q!Look(t, n) PROVE ChatIInv'
<1>1. /\ questions[t].pc = "tools" /\ questions[t].work.step = "next" /\ n \in questions[t].work.left
      /\ ListsTyped'
  BY DEF Q!Look, Q!At, ChatIInv, ListsTyped
<1>2. PICK call : call = Q!Call(t)
  OBVIOUS
<1>3. PICK w : w = questions[t].work
  OBVIOUS
<1>4. PICK row : row = rows[call.list][n]
  OBVIOUS
<1>5. w \in Q!Work /\ call.list \in Q!Lists /\ Covers(w, call) /\ n \in w.left /\ w.step = "next"
  BY <1>1, <1>2, <1>3, ToolAtWork
<1>6. row \in Nat
  BY <1>4, <1>5 DEF ChatIInv, ListsTyped
<1>7. PICK v : v = [w EXCEPT !.step = "write", !.left = @ \ {n}, !.hand = {n}, !.found = row]
  OBVIOUS
<1>8. /\ v \in Q!Work /\ v.step = "write" /\ v.left = w.left \ {n} /\ v.hand = {n}
      /\ v.partial = w.partial /\ v.changed = w.changed /\ v.lost = w.lost
  BY <1>5, <1>6, <1>7 DEF Q!Work, Q!Step
<1>9. Covers(v, call)
  BY <1>5, <1>8 DEF Covers
<1>10. Q!Works(t, v)
  BY <1>2, <1>3, <1>4, <1>7 DEF Q!Look
<1> QED
  BY <1>1, <1>2, <1>8, <1>9, <1>10, WorkKept

\* A name a tool is done with is on one of its lists, and the tool goes on to the next.
LEMMA NameDone ==
    ASSUME NEW w \in Q!Work, NEW next \in Q!Work, NEW call, Covers(w, call), NEW n,
           next.step = "next", next.hand = {},
           w.left \cup w.hand \subseteq next.left \cup {n},
           next.partial \cup next.changed \cup next.lost = w.partial \cup w.changed \cup w.lost \cup {n}
    PROVE  Covers(next, call)
BY DEF Covers

\* An addition: the row is made, or counted up, or gone.
LEMMA AddedKept ==
    ASSUME NEW w \in Q!Work, NEW call, Covers(w, call), NEW n \in Names, w.hand = {n},
           NEW v \in {[[w EXCEPT !.step = "next", !.hand = {}, !.found = Q!Gone]
                          EXCEPT !.changed = @ \cup {n}],
                      [[w EXCEPT !.step = "next", !.hand = {}, !.found = Q!Gone]
                          EXCEPT !.lost = @ \cup {n}]}
    PROVE  v \in Q!Work /\ Covers(v, call)
<1>1. /\ v \in Q!Work /\ v.step = "next" /\ v.hand = {} /\ v.left = w.left
      /\ v.partial \cup v.changed \cup v.lost = w.partial \cup w.changed \cup w.lost \cup {n}
  <2>1. PICK rest : rest = [w EXCEPT !.step = "next", !.hand = {}, !.found = Q!Gone]
    OBVIOUS
  <2>2. /\ rest \in Q!Work /\ rest.step = "next" /\ rest.hand = {} /\ rest.left = w.left
        /\ rest.partial = w.partial /\ rest.changed = w.changed /\ rest.lost = w.lost
    BY <2>1 DEF Q!Work, Q!Step, Q!Gone
  <2>3. CASE v = [rest EXCEPT !.changed = @ \cup {n}]
    BY <2>2, <2>3 DEF Q!Work
  <2>4. CASE v = [rest EXCEPT !.lost = @ \cup {n}]
    BY <2>2, <2>4 DEF Q!Work
  <2> QED
    BY <2>1, <2>3, <2>4
<1> QED
  BY <1>1, NameDone

LEMMA ListsStay ==
    ASSUME ListsTyped, NEW l \in Q!Lists, NEW n \in Names, NEW row \in {Q!Gone, made + 1},
           made' \in {made, made + 1}, rows' = [rows EXCEPT ![l][n] = row]
    PROVE  ListsTyped'
<1>1. made' \in Nat /\ row \in Nat
  BY DEF ListsTyped, Q!Gone
<1>2. rows[l] \in [Names -> Nat]
  BY DEF ListsTyped
<1>3. [rows[l] EXCEPT ![n] = row] \in [Names -> Nat]
  BY <1>1, <1>2
<1>4. rows' \in [Q!Lists -> [Names -> Nat]]
  BY <1>3 DEF ListsTyped
<1> QED
  BY <1>1, <1>4 DEF ListsTyped

LEMMA WriteKept == ASSUME ChatIInv, NEW t \in Questions, Q!Write(t) PROVE ChatIInv'
<1>1. questions[t].pc = "tools" /\ questions[t].work.step = "write" /\ ListsTyped
  BY DEF Q!Write, Q!At, ChatIInv
<1>2. PICK call : call = Q!Call(t)
  OBVIOUS
<1>3. PICK w : w = questions[t].work
  OBVIOUS
<1>4. w \in Q!Work /\ call.list \in Q!Lists /\ Covers(w, call) /\ w.step = "write"
  BY <1>1, <1>2, <1>3, ToolAtWork
<1>5. PICK n \in Names : w.hand = {n}
  BY <1>4 DEF Covers
<1>6. n \in Names
  BY <1>5
<1> DEFINE rest == [w EXCEPT !.step = "next", !.hand = {}, !.found = Q!Gone]
<1>7. CASE Q!Works(t, [rest EXCEPT !.changed = @ \cup {n}]) /\ ListsTyped'
  <2>1. PICK v : v = [rest EXCEPT !.changed = @ \cup {n}]
    OBVIOUS
  <2>2. v \in Q!Work /\ Covers(v, call)
    BY <1>4, <1>5, <1>6, <2>1, AddedKept
  <2> QED
    BY <1>1, <1>2, <1>7, <2>1, <2>2, WorkKept
<1>8. CASE Q!Works(t, [rest EXCEPT !.lost = @ \cup {n}]) /\ ListsTyped'
  <2>1. PICK v : v = [rest EXCEPT !.lost = @ \cup {n}]
    OBVIOUS
  <2>2. v \in Q!Work /\ Covers(v, call)
    BY <1>4, <1>5, <1>6, <2>1, AddedKept
  <2> QED
    BY <1>1, <1>2, <1>8, <2>1, <2>2, WorkKept
<1>9. CASE Q!Receive(t, "failed", TRUE) /\ ListsTyped'
  BY <1>1, <1>9, ReceiveKept
<1>10. ASSUME made' = made + 1, rows' = [rows EXCEPT ![call.list][n] = made + 1]
       PROVE  ListsTyped'
  BY <1>1, <1>4, <1>6, <1>10, ListsStay
<1>11. ASSUME UNCHANGED <<rows, made>> PROVE ListsTyped'
  BY <1>1, <1>11 DEF ListsTyped
<1> DEFINE made1 == made' = made + 1 /\ rows' = [rows EXCEPT ![call.list][n] = made + 1]
<1>12. \/ made1 /\ Q!Works(t, [rest EXCEPT !.changed = @ \cup {n}])
       \/ UNCHANGED <<rows, made>> /\ Q!Receive(t, "failed", TRUE)
       \/ UNCHANGED <<rows, made>> /\ Q!Works(t, [rest EXCEPT !.changed = @ \cup {n}])
       \/ UNCHANGED <<rows, made>> /\ Q!Works(t, [rest EXCEPT !.lost = @ \cup {n}])
  BY <1>2, <1>3, <1>5 DEF Q!Write
<1> HIDE DEF rest
<1> QED
  BY <1>7, <1>8, <1>9, <1>10, <1>11, <1>12

LEMMA TakeOffKept ==
    ASSUME ChatIInv, NEW t \in Questions, NEW n \in Names, Q!TakeOff(t, n) PROVE ChatIInv'
<1>1. /\ questions[t].pc = "tools" /\ questions[t].work.step = "next" /\ n \in questions[t].work.left
      /\ ListsTyped
  BY DEF Q!TakeOff, Q!TakeAway, Q!At, ChatIInv
<1>2. PICK call : call = Q!Call(t)
  OBVIOUS
<1>3. PICK w : w = questions[t].work
  OBVIOUS
<1>4. w \in Q!Work /\ call.list \in Q!Lists /\ Covers(w, call) /\ w.step = "next"
  BY <1>1, <1>2, <1>3, ToolAtWork
<1> DEFINE rest == [w EXCEPT !.left = @ \ {n}]
<1>5. ListsTyped'
  <2>1. CASE UNCHANGED rows
    BY <1>1, <2>1 DEF Q!TakeOff, Q!TakeAway, ListsTyped
  <2>2. CASE rows' = [rows EXCEPT ![call.list][n] = Q!Gone]
    <3>1. made' = made
      BY DEF Q!TakeOff, Q!TakeAway
    <3> QED
      BY <1>1, <1>4, <2>2, <3>1, ListsStay
  <2> QED
    BY <1>2, <2>1, <2>2 DEF Q!TakeOff, Q!TakeAway
<1>6. \E v \in {[rest EXCEPT !.partial = @ \cup {n}], [rest EXCEPT !.changed = @ \cup {n}],
                [rest EXCEPT !.lost = @ \cup {n}]} : Q!Works(t, v)
  BY <1>3 DEF Q!TakeOff, Q!TakeAway
<1>7. PICK v \in {[rest EXCEPT !.partial = @ \cup {n}], [rest EXCEPT !.changed = @ \cup {n}],
                  [rest EXCEPT !.lost = @ \cup {n}]} : Q!Works(t, v)
  BY <1>6
<1>8. /\ v \in Q!Work /\ v.step = "next" /\ v.hand = w.hand /\ v.left = w.left \ {n}
      /\ v.partial \cup v.changed \cup v.lost = w.partial \cup w.changed \cup w.lost \cup {n}
  <2>1. PICK less : less = rest
    OBVIOUS
  <2>2. /\ less \in Q!Work /\ less.step = "next" /\ less.hand = w.hand /\ less.left = w.left \ {n}
        /\ less.partial = w.partial /\ less.changed = w.changed /\ less.lost = w.lost
    BY <1>4, <2>1 DEF Q!Work
  <2>3. CASE v = [less EXCEPT !.partial = @ \cup {n}]
    BY <2>2, <2>3 DEF Q!Work
  <2>4. CASE v = [less EXCEPT !.changed = @ \cup {n}]
    BY <2>2, <2>4 DEF Q!Work
  <2>5. CASE v = [less EXCEPT !.lost = @ \cup {n}]
    BY <2>2, <2>5 DEF Q!Work
  <2> QED
    BY <1>7, <2>1, <2>3, <2>4, <2>5
<1>9. w.hand = {}
  BY <1>4 DEF Covers
<1>10. Covers(v, call)
  BY <1>4, <1>8, <1>9, NameDone
<1> QED
  BY <1>1, <1>2, <1>5, <1>7, <1>8, <1>10, WorkKept

LEMMA EndNamesKept == ASSUME ChatIInv, NEW t \in Questions, Q!EndNames(t) PROVE ChatIInv'
<1>1. /\ questions[t].pc = "tools" /\ questions[t].work.step = "next" /\ questions[t].work.left = {}
      /\ ListsTyped'
  BY DEF Q!EndNames, Q!At, ChatIInv, ListsTyped
<1>2. CASE Q!Receive(t, "failed", FALSE)
  BY <1>1, <1>2, ReceiveKept
<1>3. CASE Q!Works(t, [questions[t].work EXCEPT !.step = "list"])
  <2>1. PICK w : w = questions[t].work
    OBVIOUS
  <2>2. w \in Q!Work /\ Covers(w, Q!Call(t)) /\ w.step = "next" /\ w.left = {}
    BY <1>1, <2>1, ToolAtWork
  <2>3. PICK v : v = [w EXCEPT !.step = "list"]
    OBVIOUS
  <2>4. /\ v \in Q!Work /\ v.step = "list" /\ v.hand = w.hand /\ v.left = w.left
        /\ v.partial = w.partial /\ v.changed = w.changed /\ v.lost = w.lost
    BY <2>2, <2>3 DEF Q!Work, Q!Step
  <2>5. Covers(v, Q!Call(t))
    BY <2>2, <2>4 DEF Covers
  <2> QED
    BY <1>1, <1>3, <2>1, <2>3, <2>4, <2>5, WorkKept
<1> QED
  BY <1>2, <1>3 DEF Q!EndNames

\* What happens to a question in between its tools.
LEMMA TalkKept ==
    ASSUME ChatIInv, NEW t \in Questions, UNCHANGED <<rows, made>>,
           \/ Q!Ask(t) \/ Q!BuildContext(t) \/ Q!AnswerAgain(t) \/ Q!NoAnswer(t) \/ Q!Store(t)
           \/ Q!Dies(t)
    PROVE  ChatIInv'
<1>1. ListsTyped' /\ (questions[t].pc \in {"idle", "context", "first"} => questions[t].receipts = <<>>)
  BY DEF ChatIInv, ListsTyped, HonestTurn
<1>2. CASE Q!Ask(t)
  BY <1>1, <1>2, GoesKept DEF Q!Ask
<1>3. CASE Q!BuildContext(t)
  <2>1. CASE questions[t].pc = "context"
    BY <1>1, <1>3, <2>1, GoesKept DEF Q!BuildContext
  <2>2. CASE questions[t].pc = "after"
    BY <1>1, <1>3, <2>2, GoesKept DEF Q!BuildContext
  <2> QED
    BY <1>3, <2>1, <2>2 DEF Q!BuildContext
<1>4. CASE Q!AnswerAgain(t)
  BY <1>1, <1>4, GoesKept DEF Q!AnswerAgain
<1>5. CASE Q!NoAnswer(t)
  <2>1. CASE questions[t].pc = "first"
    BY <1>1, <1>5, <2>1, GoesKept DEF Q!NoAnswer
  <2>2. CASE questions[t].pc = "second"
    BY <1>1, <1>5, <2>2, GoesKept DEF Q!NoAnswer
  <2> QED
    BY <1>5, <2>1, <2>2 DEF Q!NoAnswer
<1>6. CASE Q!Store(t)
  BY <1>1, <1>6, GoesKept DEF Q!Store
<1>7. CASE Q!Dies(t)
  BY <1>1, <1>7, GoesKept DEF Q!Dies
<1> QED
  BY <1>2, <1>3, <1>4, <1>5, <1>6, <1>7

LEMMA AnswerKept ==
    ASSUME ChatIInv, NEW t \in Questions, NEW batch \in Q!Batch, Q!Answer(t, batch)
    PROVE  ChatIInv'
<1>1. ListsTyped' /\ batch \in Seq(Q!Tool)
  BY BatchIsASequence DEF Q!Answer, ChatIInv, ListsTyped
<1>2. PICK turn : turn = questions[t]
  OBVIOUS
<1>3. turn \in Q!Turn /\ HonestTurn(turn) /\ turn.pc = "first"
  BY <1>2 DEF ChatIInv, Q!Answer
<1>4. PICK pc : pc = IF batch = <<>> THEN "store" ELSE "tools"
  OBVIOUS
<1>5. PICK new : new = [turn EXCEPT !.pc = pc, !.retried = FALSE, !.plan = batch]
  OBVIOUS
<1>6. /\ new \in Q!Turn /\ new.pc = pc /\ new.plan = batch /\ new.receipts = turn.receipts
      /\ new.work = turn.work
  BY <1>1, <1>3, <1>4, <1>5 DEF Q!Turn
<1>7. HonestTurn(new)
  BY <1>3, <1>4, <1>6 DEF HonestTurn
<1>8. questions' = [questions EXCEPT ![t] = new]
  BY <1>2, <1>4, <1>5 DEF Q!Answer
<1> QED
  BY <1>1, <1>6, <1>7, <1>8, TurnKept

LEMMA NonsenseKept ==
    ASSUME ChatIInv, NEW t \in Questions, Q!AnswerNonsense(t) PROVE ChatIInv'
<1>1. ListsTyped'
  BY DEF Q!AnswerNonsense, ChatIInv, ListsTyped
<1>2. PICK turn : turn = questions[t]
  OBVIOUS
<1>3. turn \in Q!Turn /\ HonestTurn(turn) /\ turn.pc = "first"
  BY <1>2 DEF ChatIInv, Q!AnswerNonsense
<1>4. PICK r : r = [tool |-> Q!Unknown, result |-> "failed", partial |-> {}, changed |-> {},
                    lost |-> {}, broke |-> FALSE]
  OBVIOUS
<1>5. r \in Q!Receipt /\ Says(r)
  BY <1>4 DEF Q!Receipt, Says
<1>6. <<r>> \in Seq(Q!Receipt) /\ \A x \in Q!ToSet(<<r>>) : x = r
  BY <1>5 DEF Q!ToSet
<1>7. PICK new : new = [turn EXCEPT !.pc = "after", !.retried = FALSE, !.receipts = <<r>>]
  OBVIOUS
<1>8. new \in Q!Turn /\ new.pc = "after" /\ new.receipts = <<r>> /\ new.work = turn.work
  BY <1>3, <1>6, <1>7 DEF Q!Turn
<1>9. HonestTurn(new)
  BY <1>3, <1>5, <1>6, <1>8 DEF HonestTurn
<1>10. questions' = [questions EXCEPT ![t] = new]
  BY <1>2, <1>4, <1>7 DEF Q!AnswerNonsense
<1> QED
  BY <1>1, <1>8, <1>9, <1>10, TurnKept

LEMMA MisshapenKept ==
    ASSUME ChatIInv, NEW t \in Questions, Q!Misshapen(t) PROVE ChatIInv'
<1>1. ListsTyped'
  BY DEF Q!Misshapen, ChatIInv, ListsTyped
<1>2. PICK turn : turn = questions[t]
  OBVIOUS
<1>3. turn \in Q!Turn /\ HonestTurn(turn)
  BY <1>2 DEF ChatIInv
<1>4. PICK new : new = [turn EXCEPT !.retried = TRUE]
  OBVIOUS
<1>5. /\ new \in Q!Turn /\ new.pc = turn.pc /\ new.plan = turn.plan /\ new.receipts = turn.receipts
      /\ new.work = turn.work
  BY <1>3, <1>4 DEF Q!Turn
<1>6. HonestTurn(new)
  BY <1>3, <1>5 DEF HonestTurn
<1>7. questions' = [questions EXCEPT ![t] = new]
  BY <1>2, <1>4 DEF Q!Misshapen
<1> QED
  BY <1>1, <1>5, <1>6, <1>7, TurnKept

\* The tools that end.
LEMMA ToolEndsKept ==
    ASSUME ChatIInv, NEW t \in Questions, Q!RefuseUnit(t) \/ Q!ReadList(t) \/ Q!ToolThrows(t)
    PROVE  ChatIInv'
<1>1. ListsTyped' /\ questions[t].pc = "tools"
  BY DEF Q!RefuseUnit, Q!ReadList, Q!ToolThrows, Q!At, ChatIInv, ListsTyped
<1>2. CASE Q!RefuseUnit(t)
  BY <1>1, <1>2, ReceiveKept DEF Q!RefuseUnit
<1>3. CASE Q!ToolThrows(t)
  BY <1>1, <1>3, ReceiveKept DEF Q!ToolThrows
<1>4. CASE Q!ReadList(t)
  <2>1. questions[t].work.step = "list" /\ Q!Receive(t, "success", FALSE)
    BY <1>4 DEF Q!ReadList, Q!At
  <2>2. Covers(questions[t].work, Q!Call(t))
    BY <1>1, <2>1, ToolAtWork
  <2>3. Q!Call(t).names \ questions[t].work.partial
           \subseteq questions[t].work.changed \cup questions[t].work.lost
    BY <2>1, <2>2 DEF Covers
  <2> QED
    BY <1>1, <2>1, <2>3, ReceiveKept
<1> QED
  BY <1>2, <1>3, <1>4

LEMMA ElsewhereKept ==
    ASSUME ChatIInv, NEW l \in Q!Lists, NEW n \in Names, Q!Elsewhere(l, n) PROVE ChatIInv'
<1>1. PICK row \in {Q!Gone, made + 1} : rows' = [rows EXCEPT ![l][n] = row]
  BY DEF Q!Elsewhere
<1>2. made' \in {made, made + 1} /\ ListsTyped /\ questions' = questions
  BY DEF Q!Elsewhere, ChatIInv
<1>3. ListsTyped'
  BY <1>1, <1>2, ListsStay
<1> QED
  BY <1>2, <1>3 DEF ChatIInv

LEMMA ChatInit == Q!Init => ChatIInv
<1> SUFFICES ASSUME Q!Init PROVE ChatIInv
  OBVIOUS
<1>1. ListsTyped
  BY DEF Q!Init, ListsTyped, Q!Gone
<1>2. questions \in [Questions -> Q!Turn] /\ \A t \in Questions : HonestTurn(questions[t])
  BY ToolTypes DEF Q!Init
<1> QED
  BY <1>1, <1>2 DEF ChatIInv

LEMMA ChatKept == ChatIInv /\ [Q!Next]_(Q!vars) => ChatIInv'
<1> SUFFICES ASSUME ChatIInv, [Q!Next]_(Q!vars) PROVE ChatIInv'
  OBVIOUS
<1>1. CASE UNCHANGED Q!vars \/ Q!Clear
  BY <1>1 DEF Q!vars, Q!Clear, ChatIInv, ListsTyped
<1>2. ASSUME NEW t \in Questions,
             \/ Q!Ask(t) \/ Q!BuildContext(t) \/ Q!AnswerAgain(t) \/ Q!NoAnswer(t) \/ Q!Store(t)
             \/ Q!Dies(t)
      PROVE  ChatIInv'
  <2>1. UNCHANGED <<rows, made>>
    BY <1>2 DEF Q!Ask, Q!BuildContext, Q!AnswerAgain, Q!NoAnswer, Q!Store, Q!Dies
  <2> QED
    BY <1>2, <2>1, TalkKept
<1>3. ASSUME NEW t \in Questions, NEW batch \in Q!Batch, Q!Answer(t, batch) PROVE ChatIInv'
  BY <1>3, AnswerKept
<1>4. ASSUME NEW t \in Questions, NEW n \in Names, Q!Look(t, n) \/ Q!TakeOff(t, n) PROVE ChatIInv'
  BY <1>4, LookKept, TakeOffKept
<1>5. ASSUME NEW t \in Questions,
             \/ Q!AnswerNonsense(t) \/ Q!Misshapen(t) \/ Q!StartTool(t) \/ Q!RefuseUnit(t)
             \/ Q!Write(t) \/ Q!EndNames(t) \/ Q!ReadList(t) \/ Q!ToolThrows(t)
      PROVE  ChatIInv'
  BY <1>5, NonsenseKept, MisshapenKept, StartToolKept, WriteKept, EndNamesKept, ToolEndsKept
<1>6. ASSUME NEW l \in Q!Lists, NEW n \in Names, Q!Elsewhere(l, n) PROVE ChatIInv'
  BY <1>6, ElsewhereKept
<1> QED
  BY <1>1, <1>2, <1>3, <1>4, <1>5, <1>6 DEF Q!Next

\* ReceiptsHonest (chat.service.ts): what a reply shows as done is done, and a question whose tools
\* have run is never answered by a refusal, whatever other devices and other questions do to the lists
\* meanwhile.
THEOREM RepliesAreHonest == Q!Spec => []ReceiptsHonest
<1>1. ChatIInv => ReceiptsHonest
  <2> SUFFICES ASSUME ChatIInv PROVE ReceiptsHonest
    OBVIOUS
  <2>1. ASSUME NEW t \in Questions, NEW r \in Q!Receipts(t), r.result = "success"
        PROVE  r.tool.names \ r.partial \subseteq r.changed \cup r.lost
    BY <2>1 DEF ChatIInv, HonestTurn, Says, Q!Receipts
  <2>2. ASSUME NEW t \in Questions, questions[t].pc = "refused" PROVE Q!Receipts(t) = {}
    <3>1. questions[t].receipts = <<>>
      BY <2>2 DEF ChatIInv, HonestTurn
    <3> QED
      BY <3>1 DEF Q!Receipts, Q!ToSet
  <2> QED
    BY <2>1, <2>2 DEF ReceiptsHonest, Q!ReceiptsHonest
<1> QED
  BY <1>1, ChatInit, ChatKept, PTL DEF Q!Spec

-------------------------------------------------------------------------------
(* The nudges of one person.                                               *)

In(d) == {n \in nudged : d <= n.day /\ n.day < d + Gap}
Where(steps) == {j \in Jobs : sends[j] \in steps}
Ready == Where({"eligible", "cleared"})
Said == Where({"delivered"})
Logged(d) == \E entry \in log : entry.status = "sent" /\ entry.day >= d
Numbered ==
    /\ IsFiniteSet(nudged)
    /\ \A n \in nudged : n.nth <= Cardinality(nudged) /\ n.day <= today
    /\ \A entry \in log : entry.day <= today

\* Until the log shows a nudge, whoever was nudged is by a job that is still under way, or was lost
\* with a fault; once it does, nobody passes the cap, and those who have passed it were under way then.
CapIInv ==
    /\ M!TypeOK /\ Numbered
    /\ Cardinality(Where(M!Working)) <= crowd
    /\ \A d \in 0..Days :
        /\ Cardinality(In(d)) <= crowd + crowd * mailFaults
        /\ d <= today /\ today < d + Gap =>
              IF Logged(d) THEN Cardinality(In(d)) + Cardinality(Ready) <= crowd + crowd * mailFaults
              ELSE Cardinality(In(d)) <= Cardinality(Said) + crowd * mailFaults

LEMMA MailNumbers ==
    /\ Gap \in Nat /\ Gap >= 1 /\ Days \in Nat /\ IsFiniteSet(Jobs)
    /\ Jobs \cap Resends = {} /\ MaxMailFaults \in Nat /\ MaxSwitches \in Nat
<1>1. \A set : M!IsFiniteSet(set) <=> IsFiniteSet(set)
  BY DEF IsFiniteSet, M!IsFiniteSet
<1> QED
  BY <1>1, MailAssumption DEF M!MailAssumption

\* Every fault is worth as many nudges as jobs were under way at once.
LEMMA FaultsCount ==
    ASSUME NEW most \in Nat, NEW n \in Nat
    PROVE  /\ most * n \in Nat /\ most * (n + 1) = most * n + most
           /\ most * (1 + n) = most + most * n /\ (most + 1) * n = most * n + n
OBVIOUS

LEMMA WhereCounts == ASSUME NEW steps PROVE IsFiniteSet(Where(steps)) /\ Cardinality(Where(steps)) \in Nat
<1>1. Where(steps) \subseteq Jobs
  BY DEF Where
<1> QED
  BY <1>1, MailNumbers, FS_Subset, FS_CardinalityType

\* Who has passed the cap and who has nudged are different jobs under way.
LEMMA UnderWay == Cardinality(Ready) + Cardinality(Said) <= Cardinality(Where(M!Working))
<1>1. Ready \cap Said = {} /\ Ready \cup Said \subseteq Where(M!Working)
  BY DEF Ready, Said, Where, M!Working
<1>2. IsFiniteSet(Ready) /\ IsFiniteSet(Said) /\ Cardinality(Ready) \in Nat /\ Cardinality(Said) \in Nat
  BY WhereCounts DEF Ready, Said
<1>3. Cardinality(Ready \cup Said) = Cardinality(Ready) + Cardinality(Said)
  <2>1. Cardinality(Ready \cup Said) = Cardinality(Ready) + Cardinality(Said) - Cardinality(Ready \cap Said)
    BY <1>2, FS_Union
  <2>2. Cardinality(Ready \cap Said) = 0
    BY <1>1, FS_EmptySet
  <2> QED
    BY <1>2, <2>1, <2>2
<1>4. Cardinality(Ready \cup Said) <= Cardinality(Where(M!Working))
  BY <1>1, WhereCounts, FS_Subset
<1> QED
  BY <1>3, <1>4

\* A send that goes from one step to another.
LEMMA MovedSet ==
    ASSUME M!TypeOK, NEW s \in M!Sends, NEW place, M!Goes(s, place), NEW steps
    PROVE  /\ s \in Jobs /\ sends[s] \notin steps /\ place \in steps =>
                 Cardinality(Where(steps)') = Cardinality(Where(steps)) + 1
           /\ s \in Jobs /\ sends[s] \in steps /\ place \notin steps =>
                 Cardinality(Where(steps)') = Cardinality(Where(steps)) - 1
           /\ s \notin Jobs \/ (sends[s] \in steps <=> place \in steps) => Where(steps)' = Where(steps)
           /\ Cardinality(Where(steps)') \in Nat
<1>1. /\ sends'[s] = place /\ \A j \in M!Sends : j # s => sends'[j] = sends[j]
  BY DEF M!Goes, M!TypeOK
<1>2. \A j \in Jobs : j # s => sends'[j] = sends[j]
  BY <1>1 DEF M!Sends
<1>3. ASSUME s \in Jobs, sends[s] \notin steps, place \in steps
      PROVE  Cardinality(Where(steps)') = Cardinality(Where(steps)) + 1
  <2>1. Where(steps)' = Where(steps) \cup {s} /\ s \notin Where(steps)
    BY <1>1, <1>2, <1>3 DEF Where
  <2> QED
    BY <2>1, WhereCounts, FS_AddElement
<1>4. ASSUME s \in Jobs, sends[s] \in steps, place \notin steps
      PROVE  Cardinality(Where(steps)') = Cardinality(Where(steps)) - 1
  <2>1. Where(steps)' = Where(steps) \ {s} /\ s \in Where(steps)
    BY <1>1, <1>2, <1>4 DEF Where
  <2> QED
    BY <2>1, WhereCounts, FS_RemoveElement
<1>5. ASSUME s \notin Jobs \/ (sends[s] \in steps <=> place \in steps) PROVE Where(steps)' = Where(steps)
  BY <1>1, <1>2, <1>5 DEF Where
<1>6. Cardinality(Where(steps)') \in Nat
  <2>1. Where(steps)' \subseteq Jobs
    BY DEF Where
  <2> QED
    BY <2>1, MailNumbers, FS_Subset, FS_CardinalityType
<1> QED
  BY <1>3, <1>4, <1>5, <1>6

LEMMA InCounts ==
    ASSUME Numbered, NEW d PROVE IsFiniteSet(In(d)) /\ Cardinality(In(d)) \in Nat
<1>1. In(d) \subseteq nudged
  BY DEF In
<1> QED
  BY <1>1, FS_Subset, FS_CardinalityType DEF Numbered

\* Every count of the invariant is a number.
LEMMA CapNumbers ==
    ASSUME CapIInv
    PROVE  /\ mailFaults \in Nat /\ crowd * mailFaults \in Nat /\ crowd \in Nat
           /\ Cardinality(Ready) \in Nat /\ Cardinality(Said) \in Nat
           /\ Cardinality(Ready) + Cardinality(Said) <= crowd
           /\ Cardinality(Where(M!Working)) \in Nat
           /\ \A d : Cardinality(In(d)) \in Nat
           /\ today \in 0..Days /\ today \in Int /\ Gap \in Nat
<1>1. mailFaults \in Nat /\ today \in 0..Days
  BY MailNumbers DEF CapIInv, M!TypeOK
<1>5. crowd \in Nat
  BY DEF CapIInv, M!TypeOK
<1>2. /\ Cardinality(Ready) \in Nat /\ Cardinality(Said) \in Nat
      /\ Cardinality(Where(M!Working)) \in Nat /\ Cardinality(Where(M!Working)) <= crowd
  BY WhereCounts DEF Ready, Said, CapIInv
<1>3. Cardinality(Ready) + Cardinality(Said) <= crowd
  BY <1>2, <1>5, UnderWay
<1>4. \A d : Cardinality(In(d)) \in Nat
  BY InCounts DEF CapIInv
<1> QED
  BY <1>1, <1>2, <1>3, <1>4, <1>5, MailNumbers, FaultsCount

\* A step that nudges nobody, and lets nobody pass the cap.
LEMMA Quiet ==
    ASSUME CapIInv, M!TypeOK', Numbered', nudged' = nudged, today' = today,
           mailFaults' = mailFaults, crowd' = crowd,
           \A d \in 0..Days : Logged(d)' <=> Logged(d),
           Cardinality(Where(M!Working)') <= crowd,
           Cardinality(Ready') \in Nat, Cardinality(Ready') <= Cardinality(Ready), Said' = Said
    PROVE  CapIInv'
<1>1. \A d : In(d)' = In(d)
  BY DEF In
<1>2. ASSUME NEW d \in 0..Days
      PROVE  /\ Cardinality(In(d)') <= crowd' + crowd' * mailFaults'
             /\ d <= today' /\ today' < d + Gap =>
                  IF Logged(d)'
                  THEN Cardinality(In(d)') + Cardinality(Ready') <= crowd' + crowd' * mailFaults'
                  ELSE Cardinality(In(d)') <= Cardinality(Said') + crowd' * mailFaults'
  <2>1. /\ Cardinality(In(d)) <= crowd + crowd * mailFaults
        /\ d <= today /\ today < d + Gap =>
             IF Logged(d) THEN Cardinality(In(d)) + Cardinality(Ready) <= crowd + crowd * mailFaults
             ELSE Cardinality(In(d)) <= Cardinality(Said) + crowd * mailFaults
    BY DEF CapIInv
  <2>2. /\ Cardinality(In(d)) \in Nat /\ Cardinality(Ready) \in Nat
        /\ crowd \in Nat /\ crowd * mailFaults \in Nat
    BY CapNumbers
  <2>3. CASE d <= today /\ today < d + Gap /\ Logged(d)
    <3>1. Cardinality(In(d)) + Cardinality(Ready) <= crowd + crowd * mailFaults
      BY <2>1, <2>3
    <3>2. Cardinality(In(d)) + Cardinality(Ready') <= crowd + crowd * mailFaults
      BY <2>2, <3>1
    <3> QED
      BY <1>1, <2>1, <2>3, <3>2
  <2>4. CASE d <= today /\ today < d + Gap /\ ~Logged(d)
    BY <1>1, <2>1, <2>4
  <2>5. CASE ~(d <= today /\ today < d + Gap)
    BY <1>1, <2>1, <2>5
  <2> QED
    BY <2>3, <2>4, <2>5
<1> QED
  BY <1>2 DEF CapIInv

LEMMA NudgeIsNew ==
    ASSUME M!TypeOK, Numbered
    PROVE  /\ M!Nudge \in [nth : Nat, day : 0..Days] /\ M!Nudge \notin nudged
           /\ M!Nudge.nth = Cardinality(nudged) + 1 /\ M!Nudge.day = today
           /\ IsFiniteSet(nudged \cup {M!Nudge})
           /\ Cardinality(nudged \cup {M!Nudge}) = Cardinality(nudged) + 1
<1>1. M!Cardinality(nudged) = Cardinality(nudged)
  BY DEF Cardinality, M!Cardinality
<1>2. IsFiniteSet(nudged) /\ Cardinality(nudged) \in Nat /\ today \in 0..Days
  BY FS_CardinalityType DEF Numbered, M!TypeOK
<1>3. /\ M!Nudge \in [nth : Nat, day : 0..Days]
      /\ M!Nudge.nth = Cardinality(nudged) + 1 /\ M!Nudge.day = today
  BY <1>1, <1>2 DEF M!Nudge
<1>4. M!Nudge \notin nudged
  <2>1. \A n \in nudged : n.nth <= Cardinality(nudged)
    BY DEF Numbered
  <2>2. ~(Cardinality(nudged) + 1 <= Cardinality(nudged))
    BY <1>2
  <2> QED
    BY <1>3, <2>1, <2>2
<1> QED
  BY <1>2, <1>3, <1>4, FS_AddElement

LEMMA MailTyped == M!TypeOK /\ Numbered /\ [M!Next]_(M!vars) => M!TypeOK'
<1> SUFFICES ASSUME M!TypeOK, Numbered, [M!Next]_(M!vars) PROVE M!TypeOK'
  OBVIOUS
<1> USE MailNumbers DEF M!TypeOK, M!bounds, M!settings
<1>0. \A s \in M!Sends, place \in M!Place : M!Goes(s, place) => sends' \in [M!Sends -> M!Place]
  BY DEF M!Goes
<1>1. ASSUME NEW j \in Jobs, M!Cooked(j) \/ M!Start(j) \/ M!ReadSettings(j) \/ M!Look(j) PROVE M!TypeOK'
  <2>1. j \in M!Sends
    BY DEF M!Sends
  <2>2. \E place \in M!Place : M!Goes(j, place)
    BY <1>1 DEF M!Cooked, M!Start, M!ReadSettings, M!Look, M!Place, M!Working
  <2> QED
    BY <1>0, <1>1, <2>1, <2>2 DEF M!Cooked, M!Start, M!ReadSettings, M!Look
<1>2. ASSUME NEW r \in Resends, M!Resend(r) PROVE M!TypeOK'
  <2>1. r \in M!Sends /\ "eligible" \in M!Place
    BY DEF M!Sends, M!Place, M!Working
  <2> QED
    BY <1>0, <1>2, <2>1 DEF M!Resend
<1>3. ASSUME NEW s \in M!Sends PROVE \A status \in {"sent", "failed", "blocked"} :
          M!Row(s, status) \in [of : M!Sends, status : {"sent", "failed", "blocked"}, day : 0..Days]
  BY DEF M!Row
<1>4. ASSUME NEW s \in M!Sends, M!Clear(s) PROVE M!TypeOK'
  <2>1. \E place \in M!Place : M!Goes(s, place)
    BY <1>4 DEF M!Clear, M!Place, M!Working
  <2> QED
    BY <1>0, <1>3, <1>4, <2>1 DEF M!Clear
<1>5. ASSUME NEW s \in M!Sends, M!Deliver(s) PROVE M!TypeOK'
  <2>1. \E place \in M!Place : M!Goes(s, place)
    BY <1>5 DEF M!Deliver, M!Place, M!Working
  <2>2. nudged' = nudged \/ nudged' = nudged \cup {M!Nudge}
    BY <1>5 DEF M!Deliver
  <2>3. CASE nudged' = nudged
    BY <1>0, <1>5, <2>1, <2>3 DEF M!Deliver
  <2>4. CASE nudged' = nudged \cup {M!Nudge}
    <3>1. M!Nudge \in [nth : Nat, day : 0..Days]
      BY NudgeIsNew
    <3> QED
      BY <1>0, <1>5, <2>1, <2>4, <3>1 DEF M!Deliver
  <2> QED
    BY <2>2, <2>3, <2>4
<1>6. ASSUME NEW s \in M!Sends, M!Record(s) PROVE M!TypeOK'
  <2>1. "ended" \in M!Place
    BY DEF M!Place
  <2> QED
    BY <1>0, <1>3, <1>6, <2>1 DEF M!Record
<1>7. ASSUME NEW s \in M!Sends, M!RecordFails(s) PROVE M!TypeOK'
  <2>1. "ended" \in M!Place
    BY DEF M!Place
  <2> QED
    BY <1>0, <1>7, <2>1 DEF M!RecordFails
<1>8. CASE M!Crash
  <2>1. sends' \in [M!Sends -> M!Place]
    BY <1>8 DEF M!Crash, M!Place
  <2> QED
    BY <1>8, <2>1 DEF M!Crash
<1>9. CASE M!SetKindEnabled \/ M!SetPreference \/ M!Tick
  <2>1. CASE M!SetKindEnabled
    BY <2>1 DEF M!SetKindEnabled
  <2>2. CASE M!SetPreference
    BY <2>2 DEF M!SetPreference
  <2>3. CASE M!Tick
    BY <2>3 DEF M!Tick
  <2> QED
    BY <1>9, <2>1, <2>2, <2>3
<1>10. CASE UNCHANGED M!vars
  BY <1>10 DEF M!vars
<1> QED
  BY <1>1, <1>2, <1>4, <1>5, <1>6, <1>7, <1>8, <1>9, <1>10 DEF M!Next

\* What is written today or not at all, and where nobody is nudged, leaves the numbers as they are.
LEMMA NumberedKept ==
    ASSUME M!TypeOK, Numbered, nudged' = nudged, today' = today, NEW entry, entry.day = today,
           log' \subseteq log \cup {entry}
    PROVE  Numbered'
BY DEF Numbered, M!TypeOK

\* A send that goes on without a nudge and without passing the cap.
LEMMA QuietMove ==
    ASSUME CapIInv, M!TypeOK', Numbered', nudged' = nudged, today' = today,
           mailFaults' = mailFaults, crowd' = crowd,
           \A d \in 0..Days : Logged(d)' <=> Logged(d),
           NEW s \in M!Sends, NEW place, M!Goes(s, place),
           s \in Jobs => /\ sends[s] # "delivered" /\ place # "delivered"
                         /\ place \in {"eligible", "cleared"} => sends[s] \in {"eligible", "cleared"}
                         /\ place \in M!Working => sends[s] \in M!Working
    PROVE  CapIInv'
<1>1. M!TypeOK /\ Cardinality(Where(M!Working)) <= crowd
  BY DEF CapIInv
<1>2. Said' = Said
  BY <1>1, MovedSet DEF Said
<1>3. Cardinality(Ready') \in Nat /\ Cardinality(Ready') <= Cardinality(Ready)
  <2>1. Cardinality(Ready) \in Nat
    BY CapNumbers
  <2>2. \/ s \in Jobs /\ sends[s] \in {"eligible", "cleared"} /\ place \notin {"eligible", "cleared"}
        \/ s \notin Jobs \/ (sends[s] \in {"eligible", "cleared"} <=> place \in {"eligible", "cleared"})
    OBVIOUS
  <2>3. \/ Cardinality(Ready') = Cardinality(Ready) - 1
        \/ Ready' = Ready
    BY <1>1, <2>2, MovedSet DEF Ready
  <2>4. Cardinality(Ready') \in Nat
    BY <1>1, MovedSet DEF Ready
  <2> QED
    BY <2>1, <2>3, <2>4
<1>4. Cardinality(Where(M!Working)') <= crowd
  <2>1. Cardinality(Where(M!Working)) \in Nat /\ crowd \in Nat
    BY CapNumbers
  <2>3. CASE s \in Jobs /\ sends[s] \in M!Working /\ place \notin M!Working
    <3>1. Cardinality(Where(M!Working)') = Cardinality(Where(M!Working)) - 1
      BY <1>1, <2>3, MovedSet
    <3> QED
      BY <1>1, <2>1, <3>1
  <2>4. CASE s \notin Jobs \/ (sends[s] \in M!Working <=> place \in M!Working)
    <3>1. Where(M!Working)' = Where(M!Working)
      BY <1>1, <2>4, MovedSet
    <3> QED
      BY <1>1, <3>1
  <2> QED
    BY <2>3, <2>4
<1> QED
  BY <1>2, <1>3, <1>4, Quiet

\* A job begins: there may be one more under way than there ever were.
LEMMA StartKept == ASSUME CapIInv, M!TypeOK', NEW j \in Jobs, M!Start(j) PROVE CapIInv'
<1>1. /\ sends[j] = "queued" /\ j \in M!Sends /\ M!TypeOK /\ Numbered
      /\ nudged' = nudged /\ today' = today /\ log' = log /\ mailFaults' = mailFaults
      /\ crowd' = IF M!Cardinality(M!InFlight') > crowd THEN crowd + 1 ELSE crowd
  BY DEF M!Start, M!Sends, CapIInv
<1>2. PICK place \in {"reading", "ended"} : M!Goes(j, place)
  BY DEF M!Start
<1>3. Numbered' /\ (\A d : In(d)' = In(d)) /\ (\A d : Logged(d)' <=> Logged(d))
  BY <1>1 DEF Numbered, In, Logged
<1>4. Ready' = Ready /\ Said' = Said
  BY <1>1, <1>2, MovedSet DEF Ready, Said
<1>5. crowd \in Nat /\ mailFaults \in Nat /\ crowd * mailFaults \in Nat
  BY CapNumbers
<1>6. Cardinality(Where(M!Working)') <= crowd'
  <2>1. M!Cardinality(M!InFlight') = Cardinality(Where(M!Working)')
    BY DEF M!InFlight, Where, Cardinality, M!Cardinality
  <2>2. /\ Cardinality(Where(M!Working)) \in Nat /\ Cardinality(Where(M!Working)) <= crowd
        /\ Cardinality(Where(M!Working)') \in Nat
    BY <1>1, <1>2, CapNumbers, MovedSet DEF CapIInv
  <2>3. \/ Cardinality(Where(M!Working)') = Cardinality(Where(M!Working)) + 1
        \/ Where(M!Working)' = Where(M!Working)
    <3>1. "queued" \notin M!Working
      BY DEF M!Working
    <3> QED
      BY <1>1, <1>2, <3>1, MovedSet
  <2> QED
    BY <1>1, <1>5, <2>1, <2>2, <2>3
<1>7. /\ crowd' \in Nat /\ crowd <= crowd'
      /\ crowd' * mailFaults \in Nat /\ crowd * mailFaults <= crowd' * mailFaults
  <2>1. crowd' = crowd \/ crowd' = crowd + 1
    BY <1>1
  <2>2. CASE crowd' = crowd
    BY <1>5, <2>2
  <2>3. CASE crowd' = crowd + 1
    <3>1. crowd' * mailFaults = crowd * mailFaults + mailFaults
      BY <1>5, <2>3, FaultsCount
    <3> QED
      BY <1>5, <2>3, <3>1
  <2> QED
    BY <2>1, <2>2, <2>3
<1>8. ASSUME NEW d \in 0..Days
      PROVE  /\ Cardinality(In(d)') <= crowd' + crowd' * mailFaults'
             /\ d <= today' /\ today' < d + Gap =>
                  IF Logged(d)'
                  THEN Cardinality(In(d)') + Cardinality(Ready') <= crowd' + crowd' * mailFaults'
                  ELSE Cardinality(In(d)') <= Cardinality(Said') + crowd' * mailFaults'
  <2>1. /\ Cardinality(In(d)) <= crowd + crowd * mailFaults
        /\ d <= today /\ today < d + Gap =>
             IF Logged(d) THEN Cardinality(In(d)) + Cardinality(Ready) <= crowd + crowd * mailFaults
             ELSE Cardinality(In(d)) <= Cardinality(Said) + crowd * mailFaults
    BY DEF CapIInv
  <2>2. PICK size \in Nat : size = Cardinality(In(d))
    BY CapNumbers
  <2>3. PICK ready \in Nat : ready = Cardinality(Ready)
    BY CapNumbers
  <2>4. PICK said \in Nat : said = Cardinality(Said)
    BY CapNumbers
  <2>5. PICK worth \in Nat : worth = crowd * mailFaults
    BY <1>5
  <2>6. PICK worthNow \in Nat : worthNow = crowd' * mailFaults
    BY <1>7
  <2>7. PICK most \in Nat : most = crowd
    BY <1>5
  <2>8. PICK mostNow \in Nat : mostNow = crowd'
    BY <1>7
  <2>9. worth <= worthNow /\ most <= mostNow
    BY <1>7, <2>5, <2>6, <2>7, <2>8
  <2>10. /\ size <= most + worth => size <= mostNow + worthNow
         /\ size + ready <= most + worth => size + ready <= mostNow + worthNow
         /\ size <= said + worth => size <= said + worthNow
    BY <2>9
  <2> QED
    BY <1>1, <1>3, <1>4, <2>1, <2>2, <2>3, <2>4, <2>5, <2>6, <2>7, <2>8, <2>10
<1> QED
  BY <1>3, <1>6, <1>8 DEF CapIInv

\* A job that passes the cap: the log shows no nudge of the last days.
LEMMA CapLookKept == ASSUME CapIInv, M!TypeOK', NEW j \in Jobs, M!Look(j) PROVE CapIInv'
<1>1. /\ sends[j] = "allowed" /\ j \in M!Sends /\ M!TypeOK /\ Numbered
      /\ Cardinality(Where(M!Working)) <= crowd
      /\ nudged' = nudged /\ today' = today /\ log' = log /\ mailFaults' = mailFaults /\ crowd' = crowd
  BY DEF M!Look, M!bounds, M!Sends, CapIInv
<1>2. Numbered'
  BY <1>1 DEF Numbered
<1>3. \A d : Logged(d)' <=> Logged(d)
  BY <1>1 DEF Logged
<1>4. CASE M!Goes(j, "ended")
  <2>1. "allowed" \in M!Working
    BY DEF M!Working
  <2> QED
    BY <1>1, <1>2, <1>3, <1>4, <2>1, QuietMove
<1>5. CASE ~M!SentLately /\ M!Goes(j, "eligible")
  <2>1. Said' = Said /\ Where(M!Working)' = Where(M!Working)
    <3>1. "allowed" \in M!Working /\ "eligible" \in M!Working
      BY DEF M!Working
    <3> QED
      BY <1>1, <1>5, <3>1, MovedSet DEF Said
  <2>2. \A d : In(d)' = In(d)
    BY <1>1 DEF In
  <2>3. ASSUME NEW d \in 0..Days, today < d + Gap PROVE ~Logged(d)
    <3> SUFFICES ASSUME NEW entry \in log, entry.status = "sent", entry.day >= d PROVE FALSE
      BY DEF Logged
    <3>1. entry.day \in Int /\ Gap \in Nat /\ today \in Int
      BY <1>1, CapNumbers DEF M!TypeOK
    <3>2. entry.day + Gap > today
      BY <2>3, <3>1
    <3> QED
      BY <1>5, <3>2 DEF M!SentLately
  <2>4. ASSUME NEW d \in 0..Days
        PROVE  /\ Cardinality(In(d)') <= crowd' + crowd' * mailFaults'
               /\ d <= today' /\ today' < d + Gap =>
                    IF Logged(d)'
                    THEN Cardinality(In(d)') + Cardinality(Ready') <= crowd' + crowd' * mailFaults'
                    ELSE Cardinality(In(d)') <= Cardinality(Said') + crowd' * mailFaults'
    BY <1>1, <1>3, <2>1, <2>2, <2>3 DEF CapIInv
  <2> QED
    BY <1>1, <1>2, <2>1, <2>4 DEF CapIInv
<1>6. (~M!SentLately /\ M!Goes(j, "eligible")) \/ M!Goes(j, "ended")
  BY DEF M!Look
<1> QED
  BY <1>4, <1>5, <1>6

\* A nudge.
LEMMA DeliverKept == ASSUME CapIInv, M!TypeOK', NEW s \in M!Sends, M!Deliver(s) PROVE CapIInv'
<1>1. /\ sends[s] = "cleared" /\ M!TypeOK /\ Numbered
      /\ Cardinality(Where(M!Working)) <= crowd
      /\ today' = today /\ log' = log /\ mailFaults' = mailFaults /\ crowd' = crowd
  BY DEF M!Deliver, M!bounds, CapIInv
<1>2. \A d : Logged(d)' <=> Logged(d)
  BY <1>1 DEF Logged
<1>3. CASE M!Goes(s, "refused") /\ nudged' = nudged
  <2>1. Numbered'
    BY <1>1, <1>3 DEF Numbered
  <2>2. "cleared" \in M!Working
    BY DEF M!Working
  <2> QED
    BY <1>1, <1>2, <1>3, <2>1, <2>2, QuietMove
<1>4. CASE s \notin Jobs /\ nudged' = nudged /\ M!Goes(s, "delivered")
  <2>1. Numbered'
    BY <1>1, <1>4 DEF Numbered
  <2> QED
    BY <1>1, <1>2, <1>4, <2>1, QuietMove
<1>5. CASE s \in Jobs /\ nudged' = nudged \cup {M!Nudge} /\ M!Goes(s, "delivered")
  <2>1. /\ M!Nudge \notin nudged /\ M!Nudge.nth = Cardinality(nudged) + 1 /\ M!Nudge.day = today
        /\ IsFiniteSet(nudged') /\ Cardinality(nudged') = Cardinality(nudged) + 1
    BY <1>1, <1>5, NudgeIsNew
  <2>2. Numbered'
    <3>1. Cardinality(nudged) \in Nat /\ today \in Int
      BY <1>1, FS_CardinalityType, CapNumbers DEF Numbered
    <3>2. ASSUME NEW n \in nudged' PROVE n.nth <= Cardinality(nudged') /\ n.day <= today'
      <4>1. CASE n \in nudged
        <5>1. n.nth \in Nat /\ n.nth <= Cardinality(nudged) /\ n.day <= today
          BY <1>1, <4>1 DEF Numbered, M!TypeOK
        <5> QED
          BY <1>1, <2>1, <3>1, <5>1
      <4>2. CASE n = M!Nudge
        BY <1>1, <2>1, <3>1, <4>2
      <4> QED
        BY <1>5, <4>1, <4>2
    <3> QED
      BY <1>1, <2>1, <3>2 DEF Numbered
  <2>3. /\ Cardinality(Ready') = Cardinality(Ready) - 1
        /\ Cardinality(Said') = Cardinality(Said) + 1
        /\ Where(M!Working)' = Where(M!Working)
    <3>1. "cleared" \in M!Working /\ "delivered" \in M!Working
      BY DEF M!Working
    <3>2. Cardinality(Ready') = Cardinality(Ready) - 1
      BY <1>1, <1>5, MovedSet DEF Ready
    <3>3. Cardinality(Said') = Cardinality(Said) + 1
      BY <1>1, <1>5, MovedSet DEF Said
    <3> QED
      BY <1>1, <1>5, <3>1, <3>2, <3>3, MovedSet
  <2>4. ASSUME NEW d \in 0..Days
        PROVE  IF d <= today /\ today < d + Gap
               THEN Cardinality(In(d)') = Cardinality(In(d)) + 1 ELSE In(d)' = In(d)
    <3>1. CASE d <= today /\ today < d + Gap
      <4>1. In(d)' = In(d) \cup {M!Nudge} /\ M!Nudge \notin In(d)
        BY <1>5, <2>1, <3>1 DEF In
      <4> QED
        BY <1>1, <3>1, <4>1, InCounts, FS_AddElement
    <3>2. CASE ~(d <= today /\ today < d + Gap)
      BY <1>5, <2>1, <3>2 DEF In
    <3> QED
      BY <3>1, <3>2
  <2>5. ASSUME NEW d \in 0..Days
        PROVE  /\ Cardinality(In(d)') <= crowd' + crowd' * mailFaults'
               /\ d <= today' /\ today' < d + Gap =>
                    IF Logged(d)'
                    THEN Cardinality(In(d)') + Cardinality(Ready') <= crowd' + crowd' * mailFaults'
                    ELSE Cardinality(In(d)') <= Cardinality(Said') + crowd' * mailFaults'
    <3>1. /\ Cardinality(In(d)) <= crowd + crowd * mailFaults
          /\ d <= today /\ today < d + Gap =>
               IF Logged(d) THEN Cardinality(In(d)) + Cardinality(Ready) <= crowd + crowd * mailFaults
               ELSE Cardinality(In(d)) <= Cardinality(Said) + crowd * mailFaults
      BY DEF CapIInv
    <3>2. /\ Cardinality(In(d)) \in Nat /\ Cardinality(Ready) \in Nat /\ Cardinality(Said) \in Nat
          /\ crowd * mailFaults \in Nat /\ crowd \in Nat
          /\ Cardinality(Ready) + Cardinality(Said) <= crowd
      BY CapNumbers
    <3>3. Cardinality(Ready) >= 1
      <4>1. s \in Ready
        BY <1>1, <1>5 DEF Ready, Where
      <4>2. IsFiniteSet(Ready)
        BY WhereCounts DEF Ready
      <4>3. Cardinality(Ready) # 0
        BY <4>1, <4>2, FS_EmptySet
      <4> QED
        BY <3>2, <4>3
    <3>4. CASE d <= today /\ today < d + Gap /\ Logged(d)
      <4>1. Cardinality(In(d)') = Cardinality(In(d)) + 1
        BY <2>4, <3>4
      <4>2. Cardinality(In(d)) + Cardinality(Ready) <= crowd + crowd * mailFaults
        BY <3>1, <3>4
      <4>3. /\ Cardinality(In(d)') <= crowd + crowd * mailFaults
            /\ Cardinality(In(d)') + Cardinality(Ready') <= crowd + crowd * mailFaults
        BY <2>3, <3>2, <3>3, <4>1, <4>2
      <4> QED
        BY <1>1, <1>2, <3>4, <4>3
    <3>5. CASE d <= today /\ today < d + Gap /\ ~Logged(d)
      <4>1. Cardinality(In(d)') = Cardinality(In(d)) + 1
        BY <2>4, <3>5
      <4>2. Cardinality(In(d)) <= Cardinality(Said) + crowd * mailFaults
        BY <3>1, <3>5
      <4>3. /\ Cardinality(In(d)') <= crowd + crowd * mailFaults
            /\ Cardinality(In(d)') <= Cardinality(Said') + crowd * mailFaults
        BY <2>3, <3>2, <3>3, <4>1, <4>2
      <4> QED
        BY <1>1, <1>2, <3>5, <4>3
    <3>6. CASE ~(d <= today /\ today < d + Gap)
      BY <1>1, <2>4, <3>1, <3>6
    <3> QED
      BY <3>4, <3>5, <3>6
  <2> QED
    BY <1>1, <2>2, <2>3, <2>5 DEF CapIInv
<1> QED
  BY <1>3, <1>4, <1>5 DEF M!Deliver

\* A nudge is written to the log: whoever passed the cap before it was under way then.
LEMMA RecordKept == ASSUME CapIInv, M!TypeOK', NEW s \in M!Sends, M!Record(s) PROVE CapIInv'
<1> DEFINE entry == M!Row(s, IF sends[s] = "delivered" THEN "sent" ELSE "failed")
<1>1. /\ sends[s] \in {"delivered", "refused"} /\ M!Goes(s, "ended") /\ M!TypeOK /\ Numbered
      /\ Cardinality(Where(M!Working)) <= crowd
      /\ nudged' = nudged /\ today' = today /\ mailFaults' = mailFaults /\ crowd' = crowd
      /\ log' = log \cup {entry}
  BY DEF M!Record, M!bounds, CapIInv
<1>2. /\ entry.day = today
      /\ entry.status = IF sends[s] = "delivered" THEN "sent" ELSE "failed"
  BY DEF M!Row
<1> HIDE DEF entry
<1>3. Numbered'
  BY <1>1, <1>2, NumberedKept
<1>4. CASE sends[s] = "refused"
  <2>1. \A d \in 0..Days : Logged(d)' <=> Logged(d)
    BY <1>1, <1>2, <1>4 DEF Logged
  <2>2. "ended" \notin M!Working
    BY DEF M!Working
  <2> QED
    BY <1>1, <1>3, <1>4, <2>1, <2>2, QuietMove
<1>5. CASE sends[s] = "delivered"
  <2>1. "ended" \notin M!Working /\ "delivered" \in M!Working
    BY DEF M!Working
  <2>2. Ready' = Ready
    BY <1>1, <1>5, MovedSet DEF Ready
  <2>3. Cardinality(Where(M!Working)') <= crowd
    <3>1. \/ Cardinality(Where(M!Working)') = Cardinality(Where(M!Working)) - 1
          \/ Where(M!Working)' = Where(M!Working)
      BY <1>1, <1>5, <2>1, MovedSet
    <3>2. Cardinality(Where(M!Working)) \in Nat /\ crowd \in Nat
      BY CapNumbers
    <3> QED
      BY <1>1, <3>1, <3>2
  <2>4. \A d : In(d)' = In(d)
    BY <1>1 DEF In
  <2>5. \A d \in 0..Days : d <= today => Logged(d)'
    <3> SUFFICES ASSUME NEW d \in 0..Days, d <= today PROVE Logged(d)'
      OBVIOUS
    <3>1. entry \in log' /\ entry.status = "sent" /\ entry.day >= d
      BY <1>1, <1>2, <1>5, CapNumbers
    <3> QED
      BY <3>1 DEF Logged
  <2>6. ASSUME NEW d \in 0..Days
        PROVE  /\ Cardinality(In(d)') <= crowd' + crowd' * mailFaults'
               /\ d <= today' /\ today' < d + Gap =>
                    IF Logged(d)'
                    THEN Cardinality(In(d)') + Cardinality(Ready') <= crowd' + crowd' * mailFaults'
                    ELSE Cardinality(In(d)') <= Cardinality(Said') + crowd' * mailFaults'
    <3>1. /\ Cardinality(In(d)) <= crowd + crowd * mailFaults
          /\ d <= today /\ today < d + Gap =>
               IF Logged(d) THEN Cardinality(In(d)) + Cardinality(Ready) <= crowd + crowd * mailFaults
               ELSE Cardinality(In(d)) <= Cardinality(Said) + crowd * mailFaults
      BY DEF CapIInv
    <3>2. /\ Cardinality(In(d)) \in Nat /\ Cardinality(Ready) \in Nat /\ Cardinality(Said) \in Nat
          /\ crowd * mailFaults \in Nat /\ crowd \in Nat
          /\ Cardinality(Ready) + Cardinality(Said) <= crowd
      BY CapNumbers
    <3>3. CASE d <= today /\ today < d + Gap
      <4>1. Cardinality(In(d)) + Cardinality(Ready) <= crowd + crowd * mailFaults
        BY <3>1, <3>2, <3>3
      <4> QED
        BY <1>1, <2>2, <2>4, <2>5, <3>1, <3>3, <4>1
    <3>4. CASE ~(d <= today /\ today < d + Gap)
      BY <1>1, <2>4, <3>1, <3>4
    <3> QED
      BY <3>3, <3>4
  <2> QED
    BY <1>1, <1>3, <2>3, <2>6 DEF CapIInv
<1> QED
  BY <1>1, <1>4, <1>5

\* What a fault takes from the jobs under way it gives back to the bound.
LEMMA FaultKept ==
    ASSUME CapIInv, M!TypeOK', nudged' = nudged, today' = today, log' = log,
           mailFaults' = mailFaults + 1, crowd' = crowd,
           Cardinality(Where(M!Working)') <= crowd,
           Cardinality(Ready') \in Nat, Cardinality(Ready') <= Cardinality(Ready),
           Cardinality(Said') \in Nat
    PROVE  CapIInv'
<1>1. Numbered' /\ (\A d : In(d)' = In(d)) /\ (\A d : Logged(d)' <=> Logged(d))
  BY DEF CapIInv, Numbered, In, Logged
<1>2. crowd' * mailFaults' = crowd * mailFaults + crowd
  BY CapNumbers, FaultsCount
<1>3. ASSUME NEW d \in 0..Days
      PROVE  /\ Cardinality(In(d)') <= crowd' + crowd' * mailFaults'
             /\ d <= today' /\ today' < d + Gap =>
                  IF Logged(d)'
                  THEN Cardinality(In(d)') + Cardinality(Ready') <= crowd' + crowd' * mailFaults'
                  ELSE Cardinality(In(d)') <= Cardinality(Said') + crowd' * mailFaults'
  <2>1. /\ Cardinality(In(d)) <= crowd + crowd * mailFaults
        /\ d <= today /\ today < d + Gap =>
             IF Logged(d) THEN Cardinality(In(d)) + Cardinality(Ready) <= crowd + crowd * mailFaults
             ELSE Cardinality(In(d)) <= Cardinality(Said) + crowd * mailFaults
    BY DEF CapIInv
  <2>2. PICK size \in Nat : size = Cardinality(In(d))
    BY CapNumbers
  <2>3. PICK ready \in Nat : ready = Cardinality(Ready)
    BY CapNumbers
  <2>4. PICK readyNow \in Nat : readyNow = Cardinality(Ready')
    OBVIOUS
  <2>5. PICK said \in Nat : said = Cardinality(Said)
    BY CapNumbers
  <2>6. PICK saidNow \in Nat : saidNow = Cardinality(Said')
    OBVIOUS
  <2>7. PICK worth \in Nat : worth = crowd * mailFaults
    BY CapNumbers
  <2>8. crowd \in Nat /\ ready + said <= crowd /\ readyNow <= ready
    BY CapNumbers, <2>3, <2>4, <2>5
  <2>9. size <= crowd + worth
    BY <2>1, <2>2, <2>7
  <2>10. size <= crowd + (worth + crowd)
    BY <2>8, <2>9
  <2>11. CASE d <= today /\ today < d + Gap /\ Logged(d)
    <3>1. size + ready <= crowd + worth
      BY <2>1, <2>2, <2>3, <2>7, <2>11
    <3>2. size + readyNow <= crowd + (worth + crowd)
      BY <2>8, <3>1
    <3> QED
      BY <1>1, <1>2, <2>2, <2>4, <2>7, <2>10, <2>11, <3>2
  <2>12. CASE d <= today /\ today < d + Gap /\ ~Logged(d)
    <3>1. size <= said + worth
      BY <2>1, <2>2, <2>5, <2>7, <2>12
    <3>2. size <= saidNow + (worth + crowd)
      BY <2>8, <3>1
    <3> QED
      BY <1>1, <1>2, <2>2, <2>6, <2>7, <2>10, <2>12, <3>2
  <2>13. CASE ~(d <= today /\ today < d + Gap)
    BY <1>1, <1>2, <2>2, <2>7, <2>10, <2>13
  <2> QED
    BY <2>11, <2>12, <2>13
<1> QED
  BY <1>1, <1>3 DEF CapIInv

\* A day goes by with nothing under way.
LEMMA TickKept == ASSUME CapIInv, M!TypeOK', M!Tick PROVE CapIInv'
<1>1. /\ today' = today + 1 /\ nudged' = nudged /\ log' = log
      /\ mailFaults' = mailFaults /\ crowd' = crowd /\ sends' = sends
      /\ M!TypeOK /\ Numbered /\ Cardinality(Where(M!Working)) <= crowd
  BY DEF M!Tick, M!bounds, M!settings, CapIInv
<1>2. today \in Int /\ Gap \in Nat /\ today <= today'
  BY <1>1, CapNumbers
<1>3. \A n \in nudged : n.day \in Int
  BY <1>1 DEF M!TypeOK
<1>4. \A entry \in log : entry.day \in Int
  BY <1>1 DEF M!TypeOK
<1>5. Numbered'
  <2>1. \A n \in nudged : n.day <= today'
    BY <1>1, <1>2, <1>3 DEF Numbered
  <2>2. \A entry \in log : entry.day <= today'
    BY <1>1, <1>2, <1>4 DEF Numbered
  <2> QED
    BY <1>1, <2>1, <2>2 DEF Numbered
<1>6. /\ Ready' = Ready /\ Said' = Said /\ Where(M!Working)' = Where(M!Working)
      /\ \A d : In(d)' = In(d)
      /\ \A d : Logged(d)' <=> Logged(d)
  BY <1>1 DEF Ready, Said, Where, In, Logged
<1>7. ASSUME NEW d \in 0..Days
      PROVE  /\ Cardinality(In(d)') <= crowd' + crowd' * mailFaults'
             /\ d <= today' /\ today' < d + Gap =>
                  IF Logged(d)'
                  THEN Cardinality(In(d)') + Cardinality(Ready') <= crowd' + crowd' * mailFaults'
                  ELSE Cardinality(In(d)') <= Cardinality(Said') + crowd' * mailFaults'
  <2>1. /\ Cardinality(In(d)) <= crowd + crowd * mailFaults
        /\ d <= today /\ today < d + Gap =>
             IF Logged(d) THEN Cardinality(In(d)) + Cardinality(Ready) <= crowd + crowd * mailFaults
             ELSE Cardinality(In(d)) <= Cardinality(Said) + crowd * mailFaults
    BY DEF CapIInv
  <2>2. CASE d <= today
    <3>1. today' < d + Gap => today < d + Gap
      BY <1>1, <1>2
    <3> QED
      BY <1>1, <1>6, <2>1, <2>2, <3>1
  <2>3. CASE d > today
    <3>1. ~Logged(d)
      <4> SUFFICES ASSUME NEW entry \in log, entry.day >= d PROVE FALSE
        BY DEF Logged
      <4>1. entry.day \in Int /\ entry.day <= today
        BY <1>1, <1>4 DEF Numbered
      <4> QED
        BY <1>2, <2>3, <4>1
    <3>2. In(d) = {}
      <4> SUFFICES ASSUME NEW n \in nudged, d <= n.day PROVE FALSE
        BY DEF In
      <4>1. n.day \in Int /\ n.day <= today
        BY <1>1, <1>3 DEF Numbered
      <4> QED
        BY <1>2, <2>3, <4>1
    <3>3. Cardinality(In(d)) = 0
      BY <3>2, FS_EmptySet
    <3>4. 0 <= Cardinality(Said) + crowd * mailFaults
      BY CapNumbers
    <3> QED
      BY <1>1, <1>6, <2>1, <3>1, <3>3, <3>4
  <2> QED
    BY <1>2, <2>2, <2>3
<1> QED
  BY <1>1, <1>5, <1>6, <1>7 DEF CapIInv

LEMMA CapInit == M!Init => CapIInv
<1> SUFFICES ASSUME M!Init PROVE CapIInv
  OBVIOUS
<1> USE MailNumbers
<1>1. /\ today = 0 /\ sends = [s \in M!Sends |-> "none"] /\ log = {} /\ nudged = {} /\ mailFaults = 0 /\ crowd = 0
      /\ enabled = TRUE /\ subscribed = TRUE /\ switches = 0
  BY DEF M!Init
<1>2. M!TypeOK
  BY <1>1 DEF M!TypeOK, M!Place
<1>3. IsFiniteSet({}) /\ Cardinality({}) = 0
  BY FS_EmptySet
<1>4. Numbered
  BY <1>1, <1>3 DEF Numbered
<1>5. \A d : In(d) = {} /\ ~Logged(d)
  BY <1>1 DEF In, Logged
<1>6. \A j \in Jobs : sends[j] = "none"
  BY <1>1 DEF M!Sends
<1>7. Where(M!Working) = {} /\ Ready = {} /\ Said = {}
  BY <1>6 DEF Where, Ready, Said, M!Working
<1>8. crowd * mailFaults = 0
  <2>1. crowd * mailFaults = 0 * 0
    BY <1>1
  <2> QED
    BY <2>1
<1>9. ASSUME NEW d \in 0..Days
      PROVE  /\ Cardinality(In(d)) <= crowd + crowd * mailFaults
             /\ ~Logged(d) /\ Cardinality(In(d)) <= Cardinality(Said) + crowd * mailFaults
  <2>1. Cardinality(In(d)) = 0 /\ ~Logged(d)
    BY <1>3, <1>5
  <2>2. Cardinality(Said) = 0
    BY <1>3, <1>7
  <2> QED
    BY <1>1, <1>8, <2>1, <2>2
<1> QED
  BY <1>1, <1>2, <1>3, <1>4, <1>7, <1>9 DEF CapIInv

LEMMA CapKept == CapIInv /\ [M!Next]_(M!vars) => CapIInv'
<1> SUFFICES ASSUME CapIInv, [M!Next]_(M!vars) PROVE CapIInv'
  OBVIOUS
<1>1. M!TypeOK /\ Numbered /\ M!TypeOK'
  BY MailTyped DEF CapIInv
<1>2. nudged' = nudged /\ today' = today /\ log' = log => Numbered' /\ \A d : Logged(d)' <=> Logged(d)
  BY <1>1 DEF Numbered, Logged
<1>3. ASSUME NEW j \in Jobs, M!Cooked(j) \/ M!ReadSettings(j) PROVE CapIInv'
  <2>1. /\ j \in M!Sends /\ nudged' = nudged /\ today' = today /\ log' = log
        /\ mailFaults' = mailFaults /\ crowd' = crowd
    BY <1>3 DEF M!Cooked, M!ReadSettings, M!bounds, M!Sends
  <2>2. CASE M!Cooked(j)
    <3>1. sends[j] = "none" /\ M!Goes(j, "queued") /\ "queued" \notin M!Working
      BY <2>2 DEF M!Cooked, M!Working
    <3> QED
      BY <1>1, <1>2, <2>1, <3>1, QuietMove
  <2>4. CASE M!ReadSettings(j)
    <3>1. sends[j] = "reading" /\ \E place \in {"allowed", "ended"} : M!Goes(j, place)
      BY <2>4 DEF M!ReadSettings
    <3>2. PICK place \in {"allowed", "ended"} : M!Goes(j, place)
      BY <3>1
    <3>3. "reading" \in M!Working
      BY DEF M!Working
    <3> QED
      BY <1>1, <1>2, <2>1, <3>1, <3>2, <3>3, QuietMove
  <2> QED
    BY <1>3, <2>2, <2>4
<1>4. ASSUME NEW j \in Jobs, M!Start(j) \/ M!Look(j) PROVE CapIInv'
  BY <1>1, <1>4, StartKept, CapLookKept
<1>5. ASSUME NEW r \in Resends, M!Resend(r) PROVE CapIInv'
  <2>1. /\ r \in M!Sends /\ r \notin Jobs /\ M!Goes(r, "eligible")
        /\ nudged' = nudged /\ today' = today /\ log' = log /\ mailFaults' = mailFaults /\ crowd' = crowd
    BY <1>5, MailNumbers DEF M!Resend, M!bounds, M!Sends
  <2> QED
    BY <1>1, <1>2, <2>1, QuietMove
<1>6. ASSUME NEW s \in M!Sends, M!Clear(s) PROVE CapIInv'
  <2>1. /\ sends[s] = "eligible" /\ nudged' = nudged /\ today' = today
        /\ mailFaults' = mailFaults /\ crowd' = crowd
        /\ "eligible" \in M!Working
    BY <1>6 DEF M!Clear, M!bounds, M!Working
  <2>2. CASE M!Goes(s, "cleared") /\ log' = log
    BY <1>1, <1>2, <2>1, <2>2, QuietMove
  <2>3. CASE M!Goes(s, "ended") /\ log' = log \cup {M!Row(s, "blocked")}
    <3>1. M!Row(s, "blocked").day = today /\ M!Row(s, "blocked").status = "blocked"
      BY DEF M!Row
    <3>2. Numbered'
      BY <1>1, <2>1, <2>3, <3>1, NumberedKept
    <3>3. \A d \in 0..Days : Logged(d)' <=> Logged(d)
      BY <2>3, <3>1 DEF Logged
    <3> QED
      BY <1>1, <2>1, <2>3, <3>2, <3>3, QuietMove
  <2> QED
    BY <1>6, <2>2, <2>3 DEF M!Clear
<1>7. ASSUME NEW s \in M!Sends, M!Deliver(s) PROVE CapIInv'
  BY <1>1, <1>7, DeliverKept
<1>8. ASSUME NEW s \in M!Sends, M!Record(s) PROVE CapIInv'
  BY <1>1, <1>8, RecordKept
<1>9. ASSUME NEW s \in M!Sends, M!RecordFails(s) PROVE CapIInv'
  <2>1. /\ sends[s] \in {"delivered", "refused"} /\ M!Goes(s, "ended")
        /\ mailFaults' = mailFaults + 1 /\ crowd' = crowd
        /\ nudged' = nudged /\ today' = today /\ log' = log
    BY <1>9 DEF M!RecordFails
  <2>2. Ready' = Ready /\ Cardinality(Said') \in Nat
    BY <1>1, <2>1, MovedSet DEF Ready, Said
  <2>3. Cardinality(Where(M!Working)') <= crowd
    <3>1. sends[s] \in M!Working /\ "ended" \notin M!Working
      BY <2>1 DEF M!Working
    <3>2. \/ Cardinality(Where(M!Working)') = Cardinality(Where(M!Working)) - 1
          \/ Where(M!Working)' = Where(M!Working)
      BY <1>1, <2>1, <3>1, MovedSet
    <3>3. /\ Cardinality(Where(M!Working)) \in Nat /\ crowd \in Nat
          /\ Cardinality(Where(M!Working)) <= crowd
      BY CapNumbers DEF CapIInv
    <3> QED
      BY <3>2, <3>3
  <2>4. Cardinality(Ready') \in Nat /\ Cardinality(Ready') <= Cardinality(Ready)
    BY <2>2, CapNumbers
  <2> QED
    BY <1>1, <2>1, <2>2, <2>3, <2>4, FaultKept
<1>10. CASE M!Crash
  <2>1. /\ mailFaults' = mailFaults + 1 /\ crowd' = crowd
        /\ nudged' = nudged /\ today' = today /\ log' = log
        /\ sends' = [s \in M!Sends |-> IF sends[s] \notin M!Working THEN sends[s]
                                       ELSE IF s \in Jobs THEN "queued" ELSE "ended"]
    BY <1>10 DEF M!Crash
  <2>2. \A j \in Jobs : sends'[j] \notin M!Working
    BY <2>1 DEF M!Sends, M!Working
  <2>3. Where(M!Working)' = {} /\ Ready' = {} /\ Said' = {}
    BY <2>2 DEF Where, Ready, Said, M!Working
  <2>4. Cardinality({}) = 0
    BY FS_EmptySet
  <2> QED
    BY <1>1, <2>1, <2>3, <2>4, CapNumbers, FaultKept
<1>11. CASE M!SetKindEnabled \/ M!SetPreference \/ UNCHANGED M!vars
  <2>1. /\ nudged' = nudged /\ today' = today /\ log' = log
        /\ mailFaults' = mailFaults /\ crowd' = crowd /\ sends' = sends
    BY <1>11 DEF M!SetKindEnabled, M!SetPreference, M!vars
  <2>2. Ready' = Ready /\ Said' = Said /\ Where(M!Working)' = Where(M!Working)
    BY <2>1 DEF Ready, Said, Where
  <2>3. Cardinality(Where(M!Working)) <= crowd
    BY DEF CapIInv
  <2>4. Cardinality(Ready) \in Nat /\ Cardinality(Ready) <= Cardinality(Ready)
    BY CapNumbers
  <2> QED
    BY <1>1, <1>2, <2>1, <2>2, <2>3, <2>4, Quiet
<1>12. CASE M!Tick
  BY <1>1, <1>12, TickKept
<1> QED
  BY <1>3, <1>4, <1>5, <1>6, <1>7, <1>8, <1>9, <1>10, <1>11, <1>12 DEF M!Next

\* What the cap is worth (email-policy.ts, isEligible): however much is cooked, no stretch of Gap days
\* brings more nudges than there ever were jobs under way at once, and as many again for each death of
\* the process or lost row.
THEOREM NudgesAreBounded == M!Spec => []CapHolds
<1>1. CapIInv => CapHolds
  <2> SUFFICES ASSUME CapIInv, NEW d \in 0..Days PROVE M!Nudges(d) <= crowd * (1 + mailFaults)
    BY DEF CapHolds, M!CapHolds
  <2>1. M!Nudges(d) = Cardinality(In(d))
    BY DEF M!Nudges, In, Cardinality, M!Cardinality
  <2>2. crowd * (1 + mailFaults) = crowd + crowd * mailFaults
    BY CapNumbers, FaultsCount
  <2> QED
    BY <2>1, <2>2 DEF CapIInv
<1> QED
  BY <1>1, CapInit, CapKept, PTL DEF M!Spec

-------------------------------------------------------------------------------
(* The parts together.                                                     *)

\* Putting the parts behind one choice adds no step to any of them: what the process does is, to
\* each part, its own steps or none, so that every theorem above holds of the whole.
THEOREM WholeIsItsParts ==
    ExchangesSpec => Spec /\ S!Spec /\ U!Spec /\ A!Spec /\ Q!Spec /\ M!Spec
<1> DEFINE all == <<looking, vars, staffVars, signInVars, askVars, chatVars, mailVars>>
<1>1. ExchangesInit => Init /\ S!Init /\ U!Init /\ A!Init /\ Q!Init /\ M!Init
  BY DEF ExchangesInit
<1>2. ASSUME [ExchangesNext]_all
      PROVE  /\ Next \/ UNCHANGED vars
             /\ S!Next \/ UNCHANGED staffVars
             /\ U!Next \/ UNCHANGED signInVars
             /\ A!Next \/ UNCHANGED askVars
             /\ Q!Next \/ UNCHANGED chatVars
             /\ M!Next \/ UNCHANGED mailVars
  <2>1. CASE ExchangesNext
    BY <2>1, Zenon DEF ExchangesNext, Rest
  <2>2. CASE UNCHANGED all
    BY <2>2
  <2> QED
    BY <1>2, <2>1, <2>2
<1>3. /\ UNCHANGED staffVars => UNCHANGED S!vars
      /\ UNCHANGED signInVars => UNCHANGED U!vars
      /\ UNCHANGED askVars => UNCHANGED A!vars
      /\ UNCHANGED chatVars => UNCHANGED Q!vars
      /\ UNCHANGED mailVars => UNCHANGED M!vars
  <2>1. UNCHANGED staffVars => UNCHANGED S!vars
    BY DEF staffVars, S!vars, S!history, S!spent
  <2>2. UNCHANGED signInVars => UNCHANGED U!vars
    BY DEF signInVars, U!vars
  <2>3. UNCHANGED askVars => UNCHANGED A!vars
    BY DEF askVars, A!vars, A!session, A!history
  <2>4. UNCHANGED chatVars => UNCHANGED Q!vars
    BY DEF chatVars, Q!vars
  <2>5. UNCHANGED mailVars => UNCHANGED M!vars
    BY DEF mailVars, M!vars
  <2> QED
    BY <2>1, <2>2, <2>3, <2>4, <2>5
<1>4. [ExchangesNext]_all =>
         /\ [Next]_vars /\ [S!Next]_(S!vars) /\ [U!Next]_(U!vars)
         /\ [A!Next]_(A!vars) /\ [Q!Next]_(Q!vars) /\ [M!Next]_(M!vars)
  BY <1>2, <1>3
<1> QED
  BY <1>1, <1>4, PTL DEF ExchangesSpec, Spec, S!Spec, U!Spec, A!Spec, Q!Spec, M!Spec
=============================================================================
