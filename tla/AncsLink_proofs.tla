--------------------------- MODULE AncsLink_proofs --------------------------
(***************************************************************************)
(* The safety of the link for every set of phones, every set of faults,    *)
(* every threshold and every bound.  The inductive invariant is TypeOK     *)
(* with the four safety properties: two of them are kept by every function *)
(* of the session and two by every function of the enrollment, so it is    *)
(* left to show that every handler changes the two halves of s_client by   *)
(* those functions only, with arguments of the right type.                 *)
(***************************************************************************)
EXTENDS AncsLink, FiniteSetTheorems, TLAPS

-----------------------------------------------------------------------------
(***************************************************************************)
(* What the functions of the session keep: a session stays a session, a    *)
(* ready one stays secured, and a search in progress stays asked for.      *)
(***************************************************************************)
(* ReadyIsSecured, of any session.                                         *)
Secured(s) ==
  s.ready => /\ s.connected /\ s.session_authenticated /\ s.link_encrypted
             /\ s.service_found /\ s.subscribed = Source

(* DiscoveryIsUnderway, of any session.                                    *)
Searching(gatt) == \E i \in 1 .. Len(gatt) : gatt[i] = Search

Underway(s) == Matches(s) /\ s.discovery_in_progress => Searching(s.gatt)

SoundSession == {s \in Session : Secured(s) /\ Underway(s)}

(* A question leaves the others waiting, and so does the answer to another *)
(* one.                                                                    *)
LEMMA SearchingAfter ==
  ASSUME NEW gatt \in Seq(Question), NEW question \in Question
  PROVE  /\ Searching(gatt) => Searching(Append(gatt, question))
         /\ Searching(Append(gatt, Search))
         /\ gatt # << >> /\ Head(gatt) # Search /\ Searching(gatt) => Searching(Tail(gatt))
<1>1. /\ Len(gatt) \in Nat
      /\ \A q : /\ Len(Append(gatt, q)) = Len(gatt) + 1
               /\ Append(gatt, q)[Len(gatt) + 1] = q
               /\ \A i \in 1 .. Len(gatt) : Append(gatt, q)[i] = gatt[i]
  OBVIOUS
<1>2. Searching(Append(gatt, Search))
  BY <1>1 DEF Searching
<1>3. ASSUME NEW i \in 1 .. Len(gatt), gatt[i] = Search
      PROVE  Searching(Append(gatt, question))
  BY <1>1, <1>3 DEF Searching
<1>4. ASSUME NEW i \in 1 .. Len(gatt), gatt[i] = Search, gatt # << >>, Head(gatt) # Search
      PROVE  Searching(Tail(gatt))
  <2>1. i - 1 \in 1 .. Len(Tail(gatt)) /\ Tail(gatt)[i - 1] = gatt[i]
    BY <1>1, <1>4
  <2> QED
    BY <1>4, <2>1 DEF Searching
<1> QED
  BY <1>2, <1>3, <1>4 DEF Searching

(* Every signal of the reducer leads from a state to a state.              *)
LEMMA StateAfterType ==
  ASSUME NEW current \in State, NEW signal \in DOMAIN Heeded
  PROVE  StateAfter(current, signal) \in State
BY DEF StateAfter, Heeded, Reached, State

LEMMA TransitionSound ==
  ASSUME NEW s \in SoundSession, NEW signal \in DOMAIN Heeded
  PROVE  Transition(s, signal) \in SoundSession
BY StateAfterType DEF Transition, SoundSession, Secured, Underway, Matches, Session

LEMMA InSound ==
  ASSUME NEW s \in SoundSession, NEW state \in State
  PROVE  In(s, state) \in SoundSession
BY DEF In, SoundSession, Secured, Underway, Matches, Session

LEMMA AsksSound ==
  ASSUME NEW s \in SoundSession, NEW question \in Question
  PROVE  Asks(s, question) \in SoundSession
<1>1. s \in Session /\ s.gatt \in Seq(Question)
  BY DEF SoundSession, Session
<1>2. Append(s.gatt, question) \in Seq(Question)
  BY <1>1
<1>3. Asks(s, question) \in Session
  BY <1>1, <1>2 DEF Asks, Session
<1>4. Secured(Asks(s, question)) /\ Underway(Asks(s, question))
  BY <1>1, SearchingAfter DEF Asks, SoundSession, Secured, Underway, Matches, Session
<1> QED
  BY <1>3, <1>4 DEF SoundSession

LEMMA AnsweredSound ==
  ASSUME NEW s \in SoundSession, s.gatt # << >>, Head(s.gatt) # Search
  PROVE  Answered(s) \in SoundSession
<1>1. s \in Session /\ s.gatt \in Seq(Question)
  BY DEF SoundSession, Session
<1>2. Tail(s.gatt) \in Seq(Question)
  BY <1>1
<1>3. Answered(s) \in Session
  BY <1>1, <1>2 DEF Answered, Session
<1>4. Secured(Answered(s)) /\ Underway(Answered(s))
  BY <1>1, SearchingAfter
  DEF Answered, SoundSession, Secured, Underway, Matches, Session
<1> QED
  BY <1>3, <1>4 DEF SoundSession

LEMMA WithoutHandlesSound ==
  ASSUME NEW s \in SoundSession
  PROVE  WithoutHandles(s) \in SoundSession
BY ZenonT(60) DEF WithoutHandles, SoundSession, Secured, Underway, Matches, Session

-----------------------------------------------------------------------------
(* Discovery and the two subscriptions.                                    *)
LEMMA RetrySound ==
  ASSUME NEW s \in SoundSession
  PROVE  ScheduleDiscoveryRetry(s) \in SoundSession
<1> DEFINE late  == [s EXCEPT !.stage_deadline = TRUE]
           again == [s EXCEPT !.discovery_attempt = @ + 1,
                       !.discovery_retry = s.generation, !.stage_deadline = TRUE]
<1>1. s \in Session /\ s.discovery_attempt \in 0 .. 2 /\ s.generation \in Nat
  BY DEF DiscoveryRetries, SoundSession, Session
<1>2. late \in SoundSession
  BY DEF SoundSession, Secured, Underway, Matches, Session
<1>3. ASSUME s.discovery_attempt < 2
      PROVE  again \in Session
  <2>1. s.discovery_attempt + 1 \in 0 .. 2
    BY <1>1, <1>3
  <2> QED
    BY <1>1, <2>1 DEF DiscoveryRetries, Session
<1>4. Secured(again) /\ Underway(again)
  BY DEF SoundSession, Secured, Underway, Matches, Session
<1> QED
  BY <1>1, <1>2, <1>3, <1>4 DEF ScheduleDiscoveryRetry, DiscoveryRetries, SoundSession

LEMMA RecoverSound ==
  ASSUME NEW s \in SoundSession
  PROVE  Recover(s) \in SoundSession
<1>1. In(s, "recovering") \in SoundSession
  BY InSound DEF State
<1> QED
  BY <1>1, RetrySound DEF Recover

LEMMA SearchOverSound ==
  ASSUME NEW s \in Session, Secured(s)
  PROVE  [s EXCEPT !.discovery_in_progress = FALSE] \in SoundSession
BY ZenonT(60) DEF SoundSession, Secured, Underway, Matches, Session

LEMMA StartDiscoverySound ==
  ASSUME NEW s \in SoundSession, NEW accepted \in BOOLEAN
  PROVE  StartDiscovery(s, accepted) \in SoundSession
<1>1. CASE ~CanDiscover(s)
  BY <1>1 DEF StartDiscovery
<1>2. CASE CanDiscover(s)
  <2> DEFINE begun ==
        [s EXCEPT !.subscribed = {}, !.handles = FALSE, !.cccds = {},
           !.service_found = FALSE, !.discovery_in_progress = TRUE,
           !.discovery_retry = None, !.stage_deadline = TRUE]
             failed == [Discovering(s) EXCEPT !.discovery_in_progress = FALSE]
  <2>1. begun \in Session /\ Secured(begun)
    BY ZenonT(60), <1>2 DEF CanDiscover, SoundSession, Secured, Session
  <2>2. Discovering(s) \in Session /\ Secured(Discovering(s))
    <3> HIDE DEF begun
    <3>1. /\ Transition(begun, "discovery_started") \in Session
          /\ Secured(Transition(begun, "discovery_started"))
      BY <2>1, StateAfterType DEF Transition, Secured, Session, Heeded
    <3> QED
      BY <3>1 DEF Discovering, begun
  <2>3. failed \in SoundSession
    BY <2>2, SearchOverSound
  <2>4. Asks(Discovering(s), Search) \in SoundSession
    <3>1. Discovering(s).gatt \in Seq(Question) /\ Search \in Question
      BY <2>2 DEF Session, Question
    <3>2. /\ Append(Discovering(s).gatt, Search) \in Seq(Question)
          /\ Searching(Append(Discovering(s).gatt, Search))
      BY <3>1, SearchingAfter
    <3>3. /\ Asks(Discovering(s), Search) \in Session
          /\ Secured(Asks(Discovering(s), Search))
          /\ Asks(Discovering(s), Search).gatt = Append(Discovering(s).gatt, Search)
      BY <2>2, <3>2 DEF Asks, Secured, Session
    <3> QED
      BY <3>2, <3>3 DEF SoundSession, Underway
  <2>5. Recover(failed) \in SoundSession
    BY <2>3, RecoverSound
  <2> QED
    BY <1>2, <2>4, <2>5 DEF StartDiscovery
<1> QED
  BY <1>1, <1>2

LEMMA BeginSubscriptionSound ==
  ASSUME NEW s \in SoundSession, NEW source \in Source, NEW accepted \in BOOLEAN
  PROVE  BeginSubscription(s, source, accepted) \in SoundSession
<1> DEFINE waiting == AwaitRegistration(s, source)
           begun   == IF source = "data"
                      THEN Transition(waiting, "data_subscribe_started") ELSE waiting
<1>1. waiting \in SoundSession
  <2>1. waiting \in Session /\ Secured(waiting)
    BY ZenonT(60) DEF AwaitRegistration, Notify, SoundSession, Secured, Session
  <2>2. Underway(waiting)
    BY DEF AwaitRegistration, SoundSession, Underway, Matches, Session
  <2> QED
    BY <2>1, <2>2 DEF SoundSession
<1>2. begun \in SoundSession
  BY <1>1, TransitionSound DEF Heeded
<1>3. Asks(begun, Register(source)) \in SoundSession
  BY <1>2, AsksSound DEF Question
<1>4. Recover(begun) \in SoundSession
  BY <1>2, RecoverSound
<1> QED
  BY <1>3, <1>4 DEF BeginSubscription

LEMMA DiscoverCharacteristicsSound ==
  ASSUME NEW s \in SoundSession, NEW accepted \in BOOLEAN,
         NEW outcome \in {"error", "missing", "found"}
  PROVE  DiscoverCharacteristics(s, outcome, accepted) \in SoundSession
<1> DEFINE found == [s EXCEPT !.handles = TRUE, !.discovery_attempt = 0]
<1>1. found \in SoundSession
  <2>1. s \in Session /\ 0 \in 0 .. DiscoveryRetries
    BY DEF DiscoveryRetries, SoundSession
  <2>2. found \in Session
    BY <2>1 DEF Session
  <2>3. Secured(found) /\ Underway(found)
    BY DEF SoundSession, Secured, Underway, Matches, Session
  <2> QED
    BY <2>2, <2>3 DEF SoundSession
<1>2. BeginSubscription(found, "data", accepted) \in SoundSession
  BY <1>1, BeginSubscriptionSound DEF Source
<1>3. Recover(s) \in SoundSession /\ Recover(WithoutHandles(s)) \in SoundSession
  BY RecoverSound, WithoutHandlesSound
<1> QED
  BY <1>2, <1>3 DEF DiscoverCharacteristics

-----------------------------------------------------------------------------
(* The events.                                                             *)
LEMMA FreshSound ==
  ASSUME NEW s \in Session, ~s.ready, ~s.discovery_in_progress,
         NEW phone \in Phone, NEW gatt \in Seq(Question)
  PROVE  [s EXCEPT
            !.generation = @ + 1, !.connected = TRUE, !.remote_bda = phone,
            !.session_authenticated = FALSE, !.link_encrypted = FALSE,
            !.closing = FALSE, !.close_attempts = 0, !.mtu_ready = FALSE,
            !.discovery_attempt = 0, !.discovery_retry = None,
            !.prepare_deadline = TRUE, !.stage_deadline = TRUE,
            !.gatt = gatt] \in SoundSession
<1>1. 0 \in 0 .. CloseAttempts /\ 0 \in 0 .. DiscoveryRetries
  BY DEF CloseAttempts, DiscoveryRetries
<1>2. s.generation + 1 \in Nat
  BY DEF Session
<1> QED
  BY ZenonT(60), <1>1, <1>2 DEF SoundSession, Secured, Underway, Matches, Session

LEMMA ConnectedSound ==
  ASSUME NEW s \in SoundSession, NEW phone \in Phone, NEW accepted \in BOOLEAN
  PROVE  Connected(s, phone, accepted) \in SoundSession
<1> DEFINE gatt == IF accepted THEN << Open >> ELSE << >>
<1>1. WithoutHandles(s) \in Session
  BY WithoutHandlesSound DEF SoundSession
<1>2. ~WithoutHandles(s).ready /\ ~WithoutHandles(s).discovery_in_progress
  BY DEF WithoutHandles, SoundSession, Session
<1>3. gatt \in Seq(Question)
  <2>1. Open \in Question
    BY DEF Question
  <2> QED
    BY <2>1
<1> QED
  BY <1>1, <1>2, <1>3, FreshSound, TransitionSound DEF Connected, Heeded

LEMMA OpenedSound ==
  ASSUME NEW s \in SoundSession, NEW mtu_accepted \in BOOLEAN
  PROVE  Opened(s, mtu_accepted) \in SoundSession
BY TransitionSound, AsksSound DEF Opened, Heeded, Question

LEMMA MtuConfiguredSound ==
  ASSUME NEW s \in SoundSession, NEW accepted \in BOOLEAN
  PROVE  MtuConfigured(s, accepted) \in SoundSession
<1>1. [s EXCEPT !.mtu_ready = TRUE] \in SoundSession
  BY DEF SoundSession, Secured, Underway, Matches, Session
<1> QED
  BY <1>1, StartDiscoverySound DEF MtuConfigured

LEMMA AuthenticatedSound ==
  ASSUME NEW s \in SoundSession, NEW accepted \in BOOLEAN
  PROVE  Authenticated(s, accepted) \in SoundSession
<1>1. [s EXCEPT !.session_authenticated = TRUE, !.link_encrypted = TRUE,
         !.stage_deadline = TRUE] \in SoundSession
  BY ZenonT(60) DEF SoundSession, Secured, Underway, Matches, Session
<1> QED
  BY <1>1, TransitionSound, StartDiscoverySound DEF Authenticated, Heeded

LEMMA AuthenticationFailedSound ==
  ASSUME NEW s \in SoundSession
  PROVE  AuthenticationFailed(s) \in SoundSession
<1>1. [s EXCEPT !.closing = TRUE, !.session_authenticated = FALSE,
         !.link_encrypted = FALSE, !.ready = FALSE,
         !.discovery_retry = None] \in SoundSession
  BY ZenonT(60) DEF SoundSession, Secured, Underway, Matches, Session
<1> QED
  BY <1>1, InSound DEF AuthenticationFailed, State

LEMMA ServiceFoundSound ==
  ASSUME NEW s \in SoundSession
  PROVE  ServiceFound(s) \in SoundSession
<1>1. [s EXCEPT !.service_found = TRUE] \in SoundSession
  BY ZenonT(60) DEF SoundSession, Secured, Underway, Matches, Session
<1> QED
  BY <1>1 DEF ServiceFound

(* The search that is answered is the one the session waits for.           *)
LEMMA SearchCompletedSound ==
  ASSUME NEW t \in SoundSession, t.gatt # << >>,
         NEW ok \in BOOLEAN, NEW accepted \in BOOLEAN,
         NEW outcome \in {"error", "missing", "found"}
  PROVE  SearchCompleted(Answered(t), ok, outcome, accepted) \in SoundSession
<1> DEFINE s    == Answered(t)
           done == [s EXCEPT !.discovery_in_progress = FALSE]
<1>1. s \in Session /\ Secured(s)
  <2>1. t \in Session /\ t.gatt \in Seq(Question) /\ Secured(t)
    BY DEF SoundSession, Session
  <2>2. Tail(t.gatt) \in Seq(Question)
    BY <2>1
  <2>3. Answered(t) \in Session
    BY <2>1, <2>2 DEF Answered, Session
  <2> QED
    BY <2>1, <2>3 DEF Answered, Secured, Session
<1> HIDE DEF s
<1>2. done \in SoundSession
  BY <1>1, SearchOverSound
<1>3. DiscoverCharacteristics(done, outcome, accepted) \in SoundSession
  BY <1>2, DiscoverCharacteristicsSound
<1>4. Recover(done) \in SoundSession
  BY <1>2, RecoverSound
<1>5. CASE s.discovery_in_progress /\ Matches(s)
  <2> HIDE DEF done
  <2>1. SearchCompleted(s, ok, outcome, accepted) \in
          {DiscoverCharacteristics(done, outcome, accepted), Recover(done)}
    BY <1>5 DEF SearchCompleted, done
  <2> QED
    BY <1>3, <1>4, <2>1 DEF s
<1>6. CASE ~(s.discovery_in_progress /\ Matches(s))
  BY <1>1, <1>6 DEF SearchCompleted, SoundSession, Underway, s
<1> QED
  BY <1>5, <1>6

LEMMA RegisteredSound ==
  ASSUME NEW s \in SoundSession, NEW source \in Source,
         NEW ok \in BOOLEAN, NEW written \in BOOLEAN
  PROVE  Registered(s, source, ok, written) \in SoundSession
<1> DEFINE taken  == [s EXCEPT !.pending_notify = None]
           asking == [taken EXCEPT !.cccds = @ \cup {source}]
<1>1. taken \in SoundSession
  BY DEF SoundSession, Secured, Underway, Matches, Session
<1>2. asking \in SoundSession
  BY ZenonT(60) DEF SoundSession, Secured, Underway, Matches, Session
<1>3. Asks(asking, WriteCccd(source)) \in SoundSession
  <2>1. WriteCccd(source) \in Question
    BY DEF Question
  <2> QED
    BY <1>2, <2>1, AsksSound
<1>4. Recover(taken) \in SoundSession
  BY <1>1, RecoverSound
<1> QED
  BY <1>1, <1>3, <1>4 DEF Registered

(* Of a CCCD write, the only event that makes a session ready.             *)
LEMMA WrittenSound ==
  ASSUME NEW s \in SoundSession, NEW source \in Source, NEW accepted \in BOOLEAN
  PROVE  Written(s, source, accepted) \in SoundSession
<1>1. CASE source = "data"
  <2>1. [s EXCEPT !.subscribed = @ \cup {"data"}] \in SoundSession
    BY SMTT(30) DEF Source, SoundSession, Secured, Underway, Matches, Session
  <2>2. Transition([s EXCEPT !.subscribed = @ \cup {"data"}], "data_subscribed")
          \in SoundSession
    BY <2>1, TransitionSound DEF Heeded
  <2> QED
    BY <1>1, <2>2, BeginSubscriptionSound DEF Written, Source
<1>2. CASE source # "data"
  <2> DEFINE ready == /\ s.connected /\ s.session_authenticated /\ s.link_encrypted
                      /\ s.service_found /\ "data" \in s.subscribed
             count == IF ready /\ ~s.ready THEN s.session_id + 1 ELSE s.session_id
             done  == [s EXCEPT !.subscribed = @ \cup {"notification"},
                         !.session_id = count, !.ready = ready,
                         !.stage_deadline = FALSE, !.discovery_retry = None]
  <2>1. s \in Session /\ ready \in BOOLEAN /\ count \in Nat
    BY DEF SoundSession, Session
  <2> HIDE DEF ready, count
  <2>2. done \in Session
    BY <2>1 DEF Source, Session
  <2>3. Secured(done) /\ Underway(done)
    BY <2>1 DEF ready, Source, SoundSession, Secured, Underway, Matches, Session
  <2>4. Transition(done, "notification_subscribed") \in SoundSession
    BY <2>2, <2>3, TransitionSound DEF SoundSession, Heeded
  <2>5. In(Transition(done, "notification_subscribed"), "recovering") \in SoundSession
    BY <2>4, InSound DEF State
  <2> QED
    BY <1>2, <2>4, <2>5 DEF Written, ready, count
<1> QED
  BY <1>1, <1>2

LEMMA ServiceInvalidatedSound ==
  ASSUME NEW s \in SoundSession
  PROVE  ServiceInvalidated(s) \in SoundSession
<1> DEFINE bare == WithoutHandles(s)
           after(t) == [t EXCEPT !.prepare_deadline = TRUE, !.discovery_retry = None,
                          !.discovery_attempt = 0, !.generation = @ + 1]
<1>1. bare \in SoundSession
  BY WithoutHandlesSound
<1>2. ASSUME NEW t \in SoundSession
      PROVE  after(t) \in SoundSession
  <2>1. t \in Session /\ t.generation + 1 \in Nat /\ 0 \in 0 .. DiscoveryRetries
    BY DEF DiscoveryRetries, SoundSession, Session
  <2>2. after(t) \in Session
    BY <2>1 DEF Session
  <2>3. Secured(after(t)) /\ Underway(after(t))
    BY DEF SoundSession, Secured, Underway, Matches, Session
  <2> QED
    BY <2>2, <2>3 DEF SoundSession
<1>3. after(bare) \in SoundSession
  BY <1>1, <1>2
<1> QED
  BY <1>3, TransitionSound DEF ServiceInvalidated, Heeded

LEMMA DisconnectedSound ==
  ASSUME NEW s \in SoundSession
  PROVE  Disconnected(s) \in SoundSession
<1> DEFINE after(t) ==
             [t EXCEPT !.connected = FALSE,
                !.session_authenticated = FALSE, !.link_encrypted = FALSE,
                !.closing = FALSE, !.close_attempts = 0, !.mtu_ready = FALSE,
                !.stage_deadline = FALSE, !.prepare_deadline = FALSE,
                !.discovery_retry = None, !.discovery_attempt = 0,
                !.generation = @ + 1, !.gatt = << >>]
<1>1. WithoutHandles(s) \in Session
  BY WithoutHandlesSound DEF SoundSession
<1>2. ~WithoutHandles(s).ready
  BY DEF WithoutHandles, SoundSession, Session
<1>3. ASSUME NEW t \in Session, ~t.ready
      PROVE  after(t) \in SoundSession
  <2>1. /\ t.generation + 1 \in Nat /\ << >> \in Seq(Question)
        /\ 0 \in 0 .. DiscoveryRetries /\ 0 \in 0 .. CloseAttempts
    BY DEF CloseAttempts, DiscoveryRetries, Session
  <2>2. after(t) \in Session
    BY ZenonT(60), <2>1 DEF Session
  <2>3. ~after(t).ready /\ ~after(t).connected
    BY <1>3 DEF Session
  <2> QED
    BY <2>2, <2>3 DEF SoundSession, Secured, Underway, Matches
<1>4. after(WithoutHandles(s)) \in SoundSession
  BY <1>1, <1>2, <1>3
<1> QED
  BY <1>4, TransitionSound DEF Disconnected, Heeded

LEMMA ExpiredSound ==
  ASSUME NEW s \in SoundSession
  PROVE  Expired(s) \in SoundSession
BY ZenonT(60) DEF Expired, SoundSession, Secured, Underway, Matches, Session

(* The session a device starts with.                                       *)
LEMMA InitialSessionSound == InitialSession \in SoundSession
<1>1. /\ 0 \in 0 .. DiscoveryRetries /\ 0 \in 0 .. CloseAttempts
      /\ << >> \in Seq(Question) /\ "boot" \in State
  BY DEF CloseAttempts, DiscoveryRetries, State
<1> QED
  BY <1>1 DEF InitialSession, SoundSession, Secured, Underway, Matches, Session

-----------------------------------------------------------------------------
(***************************************************************************)
(* What the functions of the enrollment keep: an enrollment stays one, and *)
(* none that asks for a repair has an open window.                         *)
(***************************************************************************)
(* RepairClosesWindow, of any enrollment.                                  *)
Guarded(e) == e.pairing_repair_required => e.window = "closed"

GuardedEnrollment == {e \in Enrollment : Guarded(e)}

LEMMA CloseWindowGuarded ==
  ASSUME NEW e \in GuardedEnrollment
  PROVE  CloseWindow(e) \in GuardedEnrollment
BY DEF CloseWindow, GuardedEnrollment, Guarded, Enrollment

LEMMA NoteBondedGuarded ==
  ASSUME NEW e \in GuardedEnrollment
  PROVE  NoteBonded(e) \in GuardedEnrollment
<1>1. [e EXCEPT !.has_bond = TRUE] \in GuardedEnrollment
  BY DEF GuardedEnrollment, Guarded, Enrollment
<1> QED
  BY <1>1, CloseWindowGuarded DEF NoteBonded

LEMMA ClearBondGuarded ==
  ASSUME NEW e \in GuardedEnrollment
  PROVE  ClearBond(e) \in GuardedEnrollment
BY DEF ClearBond, GuardedEnrollment, Guarded, Enrollment

LEMMA ClearGuardGuarded ==
  ASSUME NEW e \in GuardedEnrollment
  PROVE  /\ ClearGuard(e) \in GuardedEnrollment
         /\ ~ClearGuard(e).pairing_repair_required
<1>1. e \in Enrollment /\ 0 \in 0 .. RepairThreshold
  BY ThresholdAssumption DEF GuardedEnrollment
<1>2. ClearGuard(e) \in Enrollment
  BY <1>1 DEF ClearGuard, Enrollment
<1>3. ~ClearGuard(e).pairing_repair_required
  BY <1>1 DEF ClearGuard, Enrollment
<1> QED
  BY <1>2, <1>3 DEF GuardedEnrollment, Guarded

(* A window is opened on a guard that was cleared.                         *)
LEMMA OpenWindowGuarded ==
  ASSUME NEW e \in GuardedEnrollment, ~e.pairing_repair_required
  PROVE  OpenWindow(e) \in GuardedEnrollment
<1>1. [e EXCEPT !.window = "open"] \in GuardedEnrollment
  BY DEF GuardedEnrollment, Guarded, Enrollment
<1> QED
  BY <1>1, CloseWindowGuarded DEF OpenWindow

(* The guard is set together with the closing of the window.               *)
LEMMA RecordAuthFailureGuarded ==
  ASSUME NEW e \in GuardedEnrollment,
         NEW in_window \in BOOLEAN, NEW missing_local_bond \in BOOLEAN
  PROVE  RecordAuthFailure(e, in_window, missing_local_bond) \in GuardedEnrollment
<1> DEFINE before == IF in_window THEN e.auth_failure_count ELSE 0
           count  == IF before < RepairThreshold THEN before + 1 ELSE before
           noted  == [e EXCEPT !.auth_failure_count = count]
           needed == [noted EXCEPT !.pairing_repair_required = TRUE]
<1>1. e \in Enrollment /\ Guarded(e)
  BY DEF GuardedEnrollment
<1>2. before \in 0 .. RepairThreshold
  BY <1>1, ThresholdAssumption DEF Enrollment
<1>3. count \in 0 .. RepairThreshold
  BY <1>2, ThresholdAssumption
<1> HIDE DEF before, count
<1>4. noted \in GuardedEnrollment
  <2>1. noted \in Enrollment
    BY <1>1, <1>3 DEF Enrollment
  <2>2. Guarded(noted)
    BY <1>1 DEF Guarded, Enrollment
  <2> QED
    BY <2>1, <2>2 DEF GuardedEnrollment
<1>5. CloseWindow(needed) \in GuardedEnrollment
  <2>1. noted \in Enrollment
    BY <1>4 DEF GuardedEnrollment
  <2> HIDE DEF noted
  <2>2. CloseWindow(needed) \in Enrollment
    BY <2>1 DEF CloseWindow, Enrollment
  <2>3. CloseWindow(needed).window = "closed"
    BY <2>1 DEF CloseWindow, Enrollment
  <2> QED
    BY <2>2, <2>3 DEF GuardedEnrollment, Guarded
<1> QED
  BY <1>4, <1>5 DEF RecordAuthFailure, before, count

LEMMA SyncBondsGuarded ==
  ASSUME NEW e \in GuardedEnrollment, NEW count \in Int
  PROVE  SyncBonds(e, count) \in GuardedEnrollment
BY NoteBondedGuarded, ClearBondGuarded DEF SyncBonds

-----------------------------------------------------------------------------
(* Advertising.                                                            *)
LEMMA CommandsGuarded ==
  ASSUME NEW e \in GuardedEnrollment, NEW command \in {"start", "stop"}
  PROVE  Commands(e, command) \in GuardedEnrollment
<1>1. e \in Enrollment /\ e.commands \in Seq({"start", "stop"})
  BY DEF GuardedEnrollment, Enrollment
<1>2. Append(e.commands, command) \in Seq({"start", "stop"})
  BY <1>1
<1>3. Commands(e, command) \in Enrollment
  BY <1>1, <1>2 DEF Commands, Enrollment
<1>4. Guarded(Commands(e, command))
  BY DEF Commands, GuardedEnrollment, Guarded, Enrollment
<1> QED
  BY <1>3, <1>4 DEF GuardedEnrollment

LEMMA ScheduleRetryGuarded ==
  ASSUME NEW e \in GuardedEnrollment, NEW connected \in BOOLEAN
  PROVE  ScheduleAdvertisingRetry(e, connected) \in GuardedEnrollment
<1>1. [e EXCEPT !.advertising_retry = TRUE] \in GuardedEnrollment
  BY DEF GuardedEnrollment, Guarded, Enrollment
<1> QED
  BY <1>1 DEF ScheduleAdvertisingRetry

(* What the handlers write to the two flags of advertising.                *)
LEMMA FlagsGuarded ==
  ASSUME NEW e \in GuardedEnrollment, NEW on \in BOOLEAN, NEW starting \in BOOLEAN
  PROVE  [e EXCEPT !.advertising = on, !.advertising_starting = starting]
           \in GuardedEnrollment
BY DEF GuardedEnrollment, Guarded, Enrollment

LEMMA StartAdvertisingGuarded ==
  ASSUME NEW e \in GuardedEnrollment, NEW connected \in BOOLEAN,
         NEW hid \in BOOLEAN, NEW accepted \in BOOLEAN
  PROVE  StartAdvertising(e, connected, hid, accepted) \in GuardedEnrollment
<1>1. [e EXCEPT !.advertising_starting = TRUE] \in GuardedEnrollment
  BY DEF GuardedEnrollment, Guarded, Enrollment
<1>2. Commands([e EXCEPT !.advertising_starting = TRUE], "start") \in GuardedEnrollment
  BY <1>1, CommandsGuarded
<1> QED
  BY <1>2, ScheduleRetryGuarded DEF StartAdvertising

LEMMA StopAdvertisingGuarded ==
  ASSUME NEW e \in GuardedEnrollment
  PROVE  StopAdvertising(e) \in GuardedEnrollment
<1>1. [e EXCEPT !.advertising = FALSE, !.advertising_starting = FALSE]
        \in GuardedEnrollment
  BY FlagsGuarded
<1> QED
  BY <1>1, CommandsGuarded DEF StopAdvertising

LEMMA AdvertisingStartedGuarded ==
  ASSUME NEW e \in GuardedEnrollment, NEW connected \in BOOLEAN
  PROVE  AdvertisingStarted(e, connected) \in GuardedEnrollment
<1> DEFINE wanted == ~connected /\ ShouldAdvertise(e)
           after  == [e EXCEPT !.advertising_starting = FALSE, !.advertising = wanted]
<1>1. wanted \in BOOLEAN
  BY DEF ShouldAdvertise, WindowActive, GuardedEnrollment, Enrollment
<1>2. after \in GuardedEnrollment
  <2> HIDE DEF wanted
  <2> QED
    BY <1>1 DEF GuardedEnrollment, Guarded, Enrollment
<1>3. Commands(after, "stop") \in GuardedEnrollment
  BY <1>2, CommandsGuarded
<1> QED
  BY <1>2, <1>3 DEF AdvertisingStarted

LEMMA AdvertisingFailedGuarded ==
  ASSUME NEW e \in GuardedEnrollment, NEW connected \in BOOLEAN
  PROVE  AdvertisingFailed(e, connected) \in GuardedEnrollment
<1>1. [e EXCEPT !.advertising_starting = FALSE, !.advertising = FALSE]
        \in GuardedEnrollment
  BY DEF GuardedEnrollment, Guarded, Enrollment
<1> QED
  BY <1>1, ScheduleRetryGuarded DEF AdvertisingFailed

-----------------------------------------------------------------------------
(* The enrollment API and the removal of bonds.                            *)
LEMMA EnrollGrantedGuarded ==
  ASSUME NEW e \in GuardedEnrollment, NEW connected \in BOOLEAN, NEW count \in Int,
         NEW hid \in BOOLEAN, NEW accepted \in BOOLEAN, NEW timed \in BOOLEAN
  PROVE  EnrollGranted(e, connected, count, hid, accepted, timed)
           \in GuardedEnrollment
<1> DEFINE opened == OpenWindow(ClearGuard(e))
<1>1. opened \in GuardedEnrollment
  BY ClearGuardGuarded, OpenWindowGuarded
<1>2. /\ StartAdvertising(opened, connected, hid, accepted) \in GuardedEnrollment
      /\ CloseWindow(opened) \in GuardedEnrollment
  BY <1>1, StartAdvertisingGuarded, CloseWindowGuarded
<1>3. StartAdvertising(CloseWindow(e), connected, hid, accepted)
        \in GuardedEnrollment
  BY CloseWindowGuarded, StartAdvertisingGuarded
<1> QED
  BY <1>1, <1>2, <1>3 DEF EnrollGranted

LEMMA RequestEnrollGuarded ==
  ASSUME NEW e \in GuardedEnrollment, NEW connected \in BOOLEAN, NEW count \in Int,
         NEW hid \in BOOLEAN, NEW accepted \in BOOLEAN, NEW timed \in BOOLEAN
  PROVE  RequestEnroll(e, connected, count, hid, accepted, timed)
           \in GuardedEnrollment
BY SyncBondsGuarded, EnrollGrantedGuarded DEF RequestEnroll

LEMMA BondRemovedGuarded ==
  ASSUME NEW e \in GuardedEnrollment, NEW count \in Int
  PROVE  BondRemoved(e, count) \in GuardedEnrollment
<1>1. SyncBonds(e, count) \in GuardedEnrollment
  BY SyncBondsGuarded
<1>2. ASSUME NEW synced \in GuardedEnrollment
      PROVE  [synced EXCEPT !.replace_pending = FALSE] \in GuardedEnrollment
  BY DEF GuardedEnrollment, Guarded, Enrollment
<1> QED
  BY <1>1, <1>2 DEF BondRemoved

LEMMA OpenReplacementGuarded ==
  ASSUME NEW e \in GuardedEnrollment, NEW connected \in BOOLEAN, NEW count \in Int,
         NEW hid \in BOOLEAN, NEW accepted \in BOOLEAN, NEW timed \in BOOLEAN
  PROVE  OpenReplacementWindow(e, connected, count, hid, accepted, timed)
           \in GuardedEnrollment
<1>1. [e EXCEPT !.reopen_after_disconnect = TRUE] \in GuardedEnrollment
  BY DEF GuardedEnrollment, Guarded, Enrollment
<1> QED
  BY <1>1, RequestEnrollGuarded DEF OpenReplacementWindow

LEMMA BondRemovalFailedGuarded ==
  ASSUME NEW e \in GuardedEnrollment, NEW connected \in BOOLEAN, NEW count \in Int,
         NEW hid \in BOOLEAN, NEW accepted \in BOOLEAN
  PROVE  BondRemovalFailed(e, connected, count, hid, accepted)
           \in GuardedEnrollment
<1> DEFINE synced == SyncBonds([e EXCEPT !.replace_pending = FALSE], count)
<1>1. [e EXCEPT !.replace_pending = FALSE] \in GuardedEnrollment
  BY DEF GuardedEnrollment, Guarded, Enrollment
<1>2. synced \in GuardedEnrollment
  BY <1>1, SyncBondsGuarded
<1> QED
  BY <1>2, StartAdvertisingGuarded DEF BondRemovalFailed

(* The enrollment a device starts with.                                    *)
LEMMA InitialEnrollmentGuarded ==
  ASSUME NEW has_bond \in BOOLEAN
  PROVE  InitialEnrollment(has_bond) \in GuardedEnrollment
<1>1. 0 \in 0 .. RepairThreshold /\ << >> \in Seq({"start", "stop"})
  BY ThresholdAssumption
<1> QED
  BY <1>1 DEF InitialEnrollment, GuardedEnrollment, Guarded, Enrollment

-----------------------------------------------------------------------------
(***************************************************************************)
(* Nobody takes the advertising flag away while the device is on the air,  *)
(* but for a stop in its place.                                            *)
(***************************************************************************)
Stopping(commands) == \E i \in 1 .. Len(commands) : commands[i] = "stop"

(* AdvertisingIsAccounted, of any enrollment of a device on the air.       *)
AttendedEnrollment == {e \in Enrollment : e.advertising \/ Stopping(e.commands)}

(* What advertising is about was left alone.                               *)
Unattending(e, f) == f.advertising = e.advertising /\ f.commands = e.commands

LEMMA AttendedStill ==
  ASSUME NEW e \in AttendedEnrollment, NEW f \in GuardedEnrollment, Unattending(e, f)
  PROVE  f \in AttendedEnrollment
BY DEF AttendedEnrollment, GuardedEnrollment, Unattending

LEMMA StoppingAfter ==
  ASSUME NEW commands \in Seq({"start", "stop"}), NEW command \in {"start", "stop"}
  PROVE  /\ Stopping(commands) => Stopping(Append(commands, command))
         /\ Stopping(Append(commands, "stop"))
         /\ commands # << >> /\ Head(commands) # "stop" /\ Stopping(commands)
              => Stopping(Tail(commands))
<1>1. /\ Len(commands) \in Nat
      /\ \A c : /\ Len(Append(commands, c)) = Len(commands) + 1
               /\ Append(commands, c)[Len(commands) + 1] = c
               /\ \A i \in 1 .. Len(commands) : Append(commands, c)[i] = commands[i]
  OBVIOUS
<1>2. Stopping(Append(commands, "stop"))
  BY <1>1 DEF Stopping
<1>3. ASSUME NEW i \in 1 .. Len(commands), commands[i] = "stop"
      PROVE  Stopping(Append(commands, command))
  BY <1>1, <1>3 DEF Stopping
<1>4. ASSUME NEW i \in 1 .. Len(commands), commands[i] = "stop",
             commands # << >>, Head(commands) # "stop"
      PROVE  Stopping(Tail(commands))
  <2>1. i - 1 \in 1 .. Len(Tail(commands)) /\ Tail(commands)[i - 1] = commands[i]
    BY <1>1, <1>4
  <2> QED
    BY <1>4, <2>1 DEF Stopping
<1> QED
  BY <1>2, <1>3, <1>4 DEF Stopping

LEMMA CommandsAttended ==
  ASSUME NEW e \in Enrollment
  PROVE  /\ Commands(e, "stop") \in AttendedEnrollment
         /\ e \in AttendedEnrollment => Commands(e, "start") \in AttendedEnrollment
<1>1. e.commands \in Seq({"start", "stop"})
  BY DEF Enrollment
<1>2. ASSUME NEW c \in {"start", "stop"}
      PROVE  /\ Commands(e, c) \in Enrollment
             /\ Commands(e, c).commands = Append(e.commands, c)
             /\ Commands(e, c).advertising = e.advertising
  <2>1. Append(e.commands, c) \in Seq({"start", "stop"})
    BY <1>1
  <2> QED
    BY <2>1 DEF Commands, Enrollment
<1> QED
  BY <1>1, <1>2, StoppingAfter DEF AttendedEnrollment

(* The functions that have to do with the window, the bonds and the guard. *)
LEMMA WindowUnattending ==
  ASSUME NEW e \in Enrollment
  PROVE  /\ Unattending(e, CloseWindow(e)) /\ Unattending(e, NoteBonded(e))
         /\ Unattending(e, ClearBond(e)) /\ Unattending(e, OpenWindow(e))
         /\ Unattending(e, ClearGuard(e))
BY
DEF Unattending, CloseWindow, NoteBonded, ClearBond, OpenWindow, ClearGuard,
    Enrollment

LEMMA GuardAttended ==
  ASSUME NEW e \in GuardedEnrollment, e \in AttendedEnrollment
  PROVE  /\ CloseWindow(e) \in AttendedEnrollment
         /\ NoteBonded(e) \in AttendedEnrollment
         /\ ClearBond(e) \in AttendedEnrollment
         /\ ClearGuard(e) \in AttendedEnrollment
         /\ OpenWindow(ClearGuard(e)) \in AttendedEnrollment
         /\ \A count \in Int : SyncBonds(e, count) \in AttendedEnrollment
<1>1. e \in Enrollment
  BY DEF GuardedEnrollment
<1>2. /\ CloseWindow(e) \in AttendedEnrollment /\ NoteBonded(e) \in AttendedEnrollment
      /\ ClearBond(e) \in AttendedEnrollment /\ ClearGuard(e) \in AttendedEnrollment
  BY <1>1, WindowUnattending, AttendedStill, CloseWindowGuarded, NoteBondedGuarded,
     ClearBondGuarded, ClearGuardGuarded
<1>3. ClearGuard(e) \in Enrollment /\ OpenWindow(ClearGuard(e)) \in GuardedEnrollment
  BY ClearGuardGuarded, OpenWindowGuarded DEF GuardedEnrollment
<1>4. OpenWindow(ClearGuard(e)) \in AttendedEnrollment
  BY <1>2, <1>3, WindowUnattending, AttendedStill
<1> QED
  BY <1>2, <1>4 DEF SyncBonds

LEMMA RecordAuthFailureAttended ==
  ASSUME NEW e \in GuardedEnrollment, e \in AttendedEnrollment,
         NEW in_window \in BOOLEAN, NEW missing_local_bond \in BOOLEAN
  PROVE  RecordAuthFailure(e, in_window, missing_local_bond) \in AttendedEnrollment
<1>1. Unattending(e, RecordAuthFailure(e, in_window, missing_local_bond))
  BY DEF Unattending, RecordAuthFailure, CloseWindow, GuardedEnrollment, Enrollment
<1> QED
  BY <1>1, RecordAuthFailureGuarded, AttendedStill

LEMMA ScheduleRetryAttended ==
  ASSUME NEW e \in GuardedEnrollment, e \in AttendedEnrollment, NEW connected \in BOOLEAN
  PROVE  ScheduleAdvertisingRetry(e, connected) \in AttendedEnrollment
<1>1. Unattending(e, ScheduleAdvertisingRetry(e, connected))
  BY DEF Unattending, ScheduleAdvertisingRetry, GuardedEnrollment, Enrollment
<1> QED
  BY <1>1, ScheduleRetryGuarded, AttendedStill

LEMMA StartAdvertisingAttended ==
  ASSUME NEW e \in GuardedEnrollment, e \in AttendedEnrollment, NEW connected \in BOOLEAN,
         NEW hid \in BOOLEAN, NEW accepted \in BOOLEAN
  PROVE  StartAdvertising(e, connected, hid, accepted) \in AttendedEnrollment
<1> DEFINE starting == [e EXCEPT !.advertising_starting = TRUE]
<1>1. starting \in AttendedEnrollment /\ starting \in Enrollment
  BY DEF AttendedEnrollment, Enrollment
<1>2. Commands(starting, "start") \in AttendedEnrollment
  BY <1>1, CommandsAttended
<1> QED
  BY <1>2, ScheduleRetryAttended DEF StartAdvertising

LEMMA StopAdvertisingAttended ==
  ASSUME NEW e \in GuardedEnrollment, e \in AttendedEnrollment
  PROVE  StopAdvertising(e) \in AttendedEnrollment
<1> DEFINE stopped == [e EXCEPT !.advertising = FALSE, !.advertising_starting = FALSE]
<1>1. stopped \in Enrollment
  BY FlagsGuarded DEF GuardedEnrollment
<1>2. ~e.advertising => stopped \in AttendedEnrollment
  BY <1>1 DEF AttendedEnrollment, Enrollment
<1>3. Commands(stopped, "stop") \in AttendedEnrollment
  BY <1>1, CommandsAttended
<1> QED
  BY <1>2, <1>3 DEF StopAdvertising

(* An advertiser that came on the air is wanted, or is stopped again.      *)
LEMMA AdvertisingStartedAttended ==
  ASSUME NEW e \in GuardedEnrollment, NEW connected \in BOOLEAN
  PROVE  AdvertisingStarted(e, connected) \in AttendedEnrollment
<1> DEFINE wanted == ~connected /\ ShouldAdvertise(e)
           after  == [e EXCEPT !.advertising_starting = FALSE, !.advertising = wanted]
<1>1. wanted \in BOOLEAN
  BY DEF ShouldAdvertise, WindowActive, GuardedEnrollment, Enrollment
<1>2. after \in Enrollment /\ after.advertising = wanted
  <2> HIDE DEF wanted
  <2> QED
    BY <1>1 DEF GuardedEnrollment, Enrollment
<1>3. Commands(after, "stop") \in AttendedEnrollment
  BY <1>2, CommandsAttended
<1> QED
  BY <1>2, <1>3 DEF AdvertisingStarted, AttendedEnrollment

LEMMA EnrollGrantedAttended ==
  ASSUME NEW e \in GuardedEnrollment, e \in AttendedEnrollment, NEW connected \in BOOLEAN,
         NEW count \in Int, NEW hid \in BOOLEAN, NEW accepted \in BOOLEAN,
         NEW timed \in BOOLEAN
  PROVE  EnrollGranted(e, connected, count, hid, accepted, timed) \in AttendedEnrollment
<1> DEFINE opened == OpenWindow(ClearGuard(e))
<1>1. opened \in GuardedEnrollment /\ opened \in AttendedEnrollment
  BY ClearGuardGuarded, OpenWindowGuarded, GuardAttended
<1> HIDE DEF opened
<1>2. /\ StartAdvertising(opened, connected, hid, accepted) \in AttendedEnrollment
      /\ CloseWindow(opened) \in AttendedEnrollment
  BY <1>1, StartAdvertisingAttended, GuardAttended
<1>3. StartAdvertising(CloseWindow(e), connected, hid, accepted) \in AttendedEnrollment
  BY CloseWindowGuarded, GuardAttended, StartAdvertisingAttended
<1> QED
  BY <1>1, <1>2, <1>3 DEF EnrollGranted, opened

LEMMA RequestEnrollAttended ==
  ASSUME NEW e \in GuardedEnrollment, e \in AttendedEnrollment, NEW connected \in BOOLEAN,
         NEW count \in Int, NEW hid \in BOOLEAN, NEW accepted \in BOOLEAN,
         NEW timed \in BOOLEAN
  PROVE  RequestEnroll(e, connected, count, hid, accepted, timed) \in AttendedEnrollment
BY SyncBondsGuarded, GuardAttended, EnrollGrantedAttended DEF RequestEnroll

(* The flags of the replacement.                                           *)
LEMMA ReplaceAttended ==
  ASSUME NEW e \in AttendedEnrollment, NEW on \in BOOLEAN
  PROVE  /\ [e EXCEPT !.replace_pending = on] \in AttendedEnrollment
         /\ [e EXCEPT !.reopen_after_disconnect = on] \in AttendedEnrollment
         /\ [e EXCEPT !.adv_configured = on] \in AttendedEnrollment
         /\ [e EXCEPT !.advertising_retry = on] \in AttendedEnrollment
         /\ [e EXCEPT !.window = "expired"] \in AttendedEnrollment
BY DEF AttendedEnrollment, Enrollment

LEMMA BondRemovedAttended ==
  ASSUME NEW e \in GuardedEnrollment, e \in AttendedEnrollment, NEW count \in Int
  PROVE  BondRemoved(e, count) \in AttendedEnrollment
BY GuardAttended, ReplaceAttended DEF BondRemoved

LEMMA OpenReplacementAttended ==
  ASSUME NEW e \in GuardedEnrollment, e \in AttendedEnrollment, NEW connected \in BOOLEAN,
         NEW count \in Int, NEW hid \in BOOLEAN, NEW accepted \in BOOLEAN,
         NEW timed \in BOOLEAN
  PROVE  OpenReplacementWindow(e, connected, count, hid, accepted, timed)
           \in AttendedEnrollment
BY ReplaceAttended, RequestEnrollAttended DEF OpenReplacementWindow

LEMMA BondRemovalFailedAttended ==
  ASSUME NEW e \in GuardedEnrollment, e \in AttendedEnrollment, NEW connected \in BOOLEAN,
         NEW count \in Int, NEW hid \in BOOLEAN, NEW accepted \in BOOLEAN
  PROVE  BondRemovalFailed(e, connected, count, hid, accepted) \in AttendedEnrollment
<1> DEFINE left   == [e EXCEPT !.replace_pending = FALSE]
           synced == SyncBonds(left, count)
<1>1. left \in GuardedEnrollment /\ left \in AttendedEnrollment
  BY ReplaceAttended DEF GuardedEnrollment, Guarded, Enrollment
<1> HIDE DEF left
<1>2. synced \in GuardedEnrollment /\ synced \in AttendedEnrollment
  BY <1>1, SyncBondsGuarded, GuardAttended
<1> HIDE DEF synced
<1> QED
  BY <1>2, StartAdvertisingAttended DEF BondRemovalFailed, synced, left

-----------------------------------------------------------------------------
(***************************************************************************)
(* The handlers.                                                           *)
(***************************************************************************)
Inv ==
  /\ TypeOK /\ ReadyIsSecured /\ DiscoveryIsUnderway /\ RepairClosesWindow
  /\ AdvertisingIsAccounted

LEMMA HalvesOfInv ==
  Inv <=> /\ TypeOK
          /\ session \in SoundSession
          /\ enrollment \in GuardedEnrollment
          /\ radio => enrollment \in AttendedEnrollment
BY DEF Inv, TypeOK, ReadyIsSecured, DiscoveryIsUnderway, RepairClosesWindow,
       AdvertisingIsAccounted, SoundSession, Secured, Underway, Searching,
       GuardedEnrollment, Guarded, AttendedEnrollment, Stopping

(* What a call of the stack may return.                                    *)
LEMMA AcceptedType ==
  ASSUME NEW kind, NEW accepted \in Accepted(kind)
  PROVE  accepted \in BOOLEAN
BY DEF Accepted

LEMMA BondCountType ==
  ASSUME TypeOK, NEW count \in BondCount
  PROVE  count \in Int
<1>1. IsFiniteSet(bonds)
  BY LinkAssumption, FS_Subset DEF TypeOK
<1>2. Cardinality(bonds) \in Nat
  BY <1>1, FS_CardinalityType
<1> QED
  BY <1>2 DEF BondCount, Unknown

LEMMA RemainingBonds ==
  ASSUME TypeOK, NEW phone, BondIsRemoved(phone),
         NEW count \in {Cardinality(bonds')} \cup (BondCount \cap {Unknown})
  PROVE  count \in Int
<1>1. bonds' \subseteq Phone
  BY DEF BondIsRemoved, TypeOK
<1>2. IsFiniteSet(bonds')
  BY <1>1, LinkAssumption, FS_Subset
<1> QED
  BY <1>2, FS_CardinalityType DEF Unknown

-----------------------------------------------------------------------------
(* The handlers of the Bluetooth stack change the session only by its      *)
(* functions.                                                              *)
LEMMA GapEventSession ==
  ASSUME Inv, GapEvent
  PROVE  session' \in SoundSession
<1>1. TypeOK /\ session \in SoundSession
  BY HalvesOfInv
<1>2. CASE UNCHANGED session
  BY <1>1, <1>2
<1>3. CASE AdvStartComplete
  BY <1>1, <1>3, InSound DEF AdvStartComplete, State
<1>4. ASSUME NEW phone \in Phone, AuthCmplSuccess(phone)
      PROVE  session' \in SoundSession
  <2>1. CASE AuthenticationExpected(phone)
    <3>1. PICK accepted \in Accepted("gatt") : session' = Authenticated(session, accepted)
      BY <1>4, <2>1 DEF AuthCmplSuccess
    <3> QED
      BY <1>1, <3>1, AcceptedType, AuthenticatedSound
  <2> QED
    BY <1>1, <1>4, <2>1 DEF AuthCmplSuccess
<1>5. ASSUME NEW phone \in Phone, AuthCmplFailure(phone)
      PROVE  session' \in SoundSession
  BY <1>1, <1>5, AuthenticationFailedSound DEF AuthCmplFailure
<1>6. CASE \/ AdvDataSet \/ HidReady \/ AdvStartFails \/ AdvStops
           \/ \E phone \in Phone : \/ SecReq(phone) \/ Encrypts(phone)
                                   \/ BondIsRemoved(phone) \/ BondRemovalFails(phone)
  BY <1>2, <1>6 DEF AdvDataSet, HidReady, AdvStartFails, AdvStops, SecReq,
       Encrypts, BondIsRemoved, BondRemovalFails
<1> QED
  BY <1>3, <1>4, <1>5, <1>6 DEF GapEvent

LEMMA GattcEventSession ==
  ASSUME Inv, GattcEvent
  PROVE  session' \in SoundSession
<1>1. TypeOK /\ session \in SoundSession
  BY HalvesOfInv
<1>2. /\ session.gatt # << >> /\ Head(session.gatt) # Search
           => Answered(session) \in SoundSession
      /\ Open # Search /\ Mtu # Search
      /\ \A source : Register(source) # Search /\ WriteCccd(source) # Search
  BY <1>1, AnsweredSound DEF Open, Mtu, Search, Register, WriteCccd
<1>3. ASSUME NEW phone \in Phone, Connect(phone)
      PROVE  session' \in SoundSession
  <2>1. CASE Reject(phone) \/ Ignore(phone)
    BY <1>1, <2>1 DEF Reject, Ignore
  <2>2. CASE Accept(phone)
    BY <1>1, <2>2, ConnectedSound DEF Accept
  <2> QED
    BY <1>3, <2>1, <2>2 DEF Connect
<1>4. ASSUME NEW phone \in Phone, Disconnects(phone)
      PROVE  session' \in SoundSession
  BY <1>1, <1>4, DisconnectedSound DEF Disconnects
<1>5. CASE OpenEvt
  BY <1>2, <1>5, AcceptedType, OpenedSound DEF OpenEvt, Answer
<1>6. CASE OpenEvtFails
  BY <1>2, <1>6 DEF OpenEvtFails, Answer
<1>7. CASE MtuEvt
  BY <1>2, <1>7, AcceptedType, MtuConfiguredSound DEF MtuEvt, Answer
<1>8. CASE SearchRes
  BY <1>1, <1>8, ServiceFoundSound DEF SearchRes
<1>9. CASE SearchCmpl
  BY <1>1, <1>9, AcceptedType, SearchCompletedSound DEF SearchCmpl, Answer
<1>10. ASSUME NEW source \in Source, RegForNotify(source)
       PROVE  session' \in SoundSession
  BY <1>2, <1>10, AcceptedType, RegisteredSound DEF RegForNotify, Answer
<1>11. ASSUME NEW source \in Source, WriteDescr(source)
       PROVE  session' \in SoundSession
  BY <1>2, <1>11, RecoverSound DEF WriteDescr, Answer
<1>12. CASE FinishWrite
  <2>1. writing \in Source
    BY <1>1, <1>12 DEF FinishWrite, TypeOK
  <2> QED
    BY <1>1, <1>12, <2>1, AcceptedType, WrittenSound DEF FinishWrite
<1>13. CASE ServiceChanged
  BY <1>1, <1>13, AcceptedType, ServiceInvalidatedSound, StartDiscoverySound
     DEF ServiceChanged
<1> QED
  BY <1>3, <1>4, <1>5, <1>6, <1>7, <1>8, <1>9, <1>10, <1>11, <1>12, <1>13
     DEF GattcEvent

(* So do the timers, the worker and the enrollment API.                    *)
LEMMA ClosingSessionSound ==
  ASSUME NEW s \in SoundSession, MayClose(s)
  PROVE  CloseAsked(s) \in SoundSession
<1>1. s \in Session /\ s.close_attempts + 1 \in 0 .. CloseAttempts
  BY DEF MayClose, CloseAttempts, SoundSession, Session
<1>2. CloseAsked(s) \in Session
  BY <1>1 DEF CloseAsked, Session
<1>3. Secured(CloseAsked(s)) /\ Underway(CloseAsked(s))
  BY DEF CloseAsked, SoundSession, Secured, Underway, Matches, Session
<1> QED
  BY <1>2, <1>3 DEF SoundSession

LEMMA TimerTaskSession ==
  ASSUME Inv, TimerTask
  PROVE  session' \in SoundSession
<1>1. session \in SoundSession
  BY HalvesOfInv
<1>2. CASE DiscoveryRetry
  <2>1. [session EXCEPT !.discovery_retry = None] \in SoundSession
    BY <1>1 DEF SoundSession, Secured, Underway, Matches, Session
  <2> QED
    BY <1>2, <2>1, AcceptedType, StartDiscoverySound DEF DiscoveryRetry
<1>3. CASE AdvertisingRetry \/ WindowExpires \/ WindowTimeout \/ WindowStop
  BY <1>1, <1>3 DEF AdvertisingRetry, WindowExpires, WindowTimeout, WindowStop
<1> QED
  BY <1>2, <1>3 DEF TimerTask

LEMMA WorkerTaskSession ==
  ASSUME Inv, WorkerTask
  PROVE  session' \in SoundSession
<1>1. session \in SoundSession
  BY HalvesOfInv
<1>2. CASE DeadlinePassed
  <2>1. Expired(session) \in SoundSession
    BY <1>1, ExpiredSound
  <2> QED
    BY <1>2, <2>1, ClosingSessionSound DEF DeadlinePassed
<1>3. CASE CloseDue
  BY <1>1, <1>3, ClosingSessionSound DEF CloseDue
<1>4. CASE DeadlineState \/ RecoverState
  BY <1>1, <1>4, InSound DEF DeadlineState, RecoverState, State
<1>5. CASE RecoverDataStream
  BY <1>1, <1>5
  DEF RecoverDataStream, SoundSession, Secured, Underway, Matches, Session
<1>6. CASE \/ DeadlineClose \/ RequestWritten \/ RequestEnds \/ RequestFails
           \/ RecoverClose
  BY <1>1, <1>6 DEF DeadlineClose, RequestWritten, RequestEnds, RequestFails,
       RecoverClose
<1> QED
  BY <1>2, <1>3, <1>4, <1>5, <1>6 DEF WorkerTask

LEMMA CallerTaskSession ==
  ASSUME Inv, CallerTask
  PROVE  session' \in SoundSession
<1>1. session \in SoundSession
  BY HalvesOfInv
<1>2. UNCHANGED session
  BY DEF CallerTask, RequestEnrollCall, EnrollAsk, EnrollSync, EnrollOpen,
       ReplaceCall, ReplaceMark, ReplaceStop, ReplaceRemove, ReplaceRemoveFails,
       ReplaceFailed, ReplaceCheck, ReplaceOpen
<1> QED
  BY <1>1, <1>2

-----------------------------------------------------------------------------
(* Every task changes the enrollment only by its functions.                *)
LEMMA GapEventEnrollment ==
  ASSUME Inv, GapEvent
  PROVE  enrollment' \in GuardedEnrollment
<1>1. TypeOK /\ enrollment \in GuardedEnrollment
  BY HalvesOfInv
<1>2. session.connected \in BOOLEAN /\ hid_ready \in BOOLEAN
  BY <1>1 DEF TypeOK, Session
<1>3. CASE AdvDataSet
  <2>1. [enrollment EXCEPT !.adv_configured = TRUE] \in GuardedEnrollment
    BY <1>1 DEF GuardedEnrollment, Guarded, Enrollment
  <2> QED
    BY <1>2, <1>3, <2>1, AcceptedType, StartAdvertisingGuarded
       DEF AdvDataSet, Advertises
<1>4. CASE AdvStartComplete \/ AdvStartFails \/ AdvStops
  <2>1. enrollment.commands # << >>
    BY <1>4 DEF AdvStartComplete, AdvStartFails, AdvStops, Advertiser
  <2>2. Taken \in GuardedEnrollment
    <3>1. /\ enrollment \in Enrollment
          /\ enrollment.commands \in Seq({"start", "stop"})
      BY <1>1 DEF GuardedEnrollment, Enrollment
    <3>2. Tail(enrollment.commands) \in Seq({"start", "stop"})
      BY <2>1, <3>1
    <3>3. Taken \in Enrollment
      BY <3>1, <3>2 DEF Taken, Enrollment
    <3>4. Guarded(Taken)
      BY <1>1 DEF Taken, GuardedEnrollment, Guarded, Enrollment
    <3> QED
      BY <3>3, <3>4 DEF GuardedEnrollment
  <2> QED
    BY <1>2, <1>4, <2>2, AdvertisingStartedGuarded, AdvertisingFailedGuarded
       DEF AdvStartComplete, AdvStartFails, AdvStops
<1>5. ASSUME NEW phone \in Phone, AuthCmplSuccess(phone)
      PROVE  enrollment' \in GuardedEnrollment
  BY <1>1, <1>5, ClearGuardGuarded, NoteBondedGuarded, StopAdvertisingGuarded
     DEF AuthCmplSuccess
<1>6. ASSUME NEW phone \in Phone, AuthCmplFailure(phone)
      PROVE  enrollment' \in GuardedEnrollment
  <2>1. CASE AuthenticationExpected(phone)
    <3>1. PICK in_window \in BOOLEAN, count \in BondCount :
            LET noted == RecordAuthFailure(enrollment, in_window, count = 0)
            IN  enrollment' = IF noted.pairing_repair_required
                              THEN StopAdvertising(noted)
                              ELSE ScheduleAdvertisingRetry(noted, session.connected)
      BY <1>6, <2>1 DEF AuthCmplFailure
    <3>2. RecordAuthFailure(enrollment, in_window, count = 0) \in GuardedEnrollment
      BY <1>1, RecordAuthFailureGuarded
    <3> QED
      BY <1>2, <3>1, <3>2, StopAdvertisingGuarded, ScheduleRetryGuarded
  <2> QED
    BY <1>1, <1>6, <2>1 DEF AuthCmplFailure
<1>7. ASSUME NEW phone \in Phone, BondIsRemoved(phone)
      PROVE  enrollment' \in GuardedEnrollment
  <2>1. PICK count \in {Cardinality(bonds')} \cup (BondCount \cap {Unknown}),
             accepted \in Accepted("advertise"), timed \in Accepted("timer") :
          LET removed == BondRemoved(enrollment, count)
          IN  enrollment' =
                IF count = 0 /\ enrollment.replace_pending
                THEN OpenReplacementWindow(removed, session.connected, count,
                                           hid_ready, accepted, timed)
                ELSE removed
    BY <1>7 DEF BondIsRemoved
  <2>2. count \in Int
    BY <1>1, <1>7, <2>1, RemainingBonds
  <2>3. BondRemoved(enrollment, count) \in GuardedEnrollment
    BY <1>1, <2>2, BondRemovedGuarded
  <2> QED
    BY <1>2, <2>1, <2>2, <2>3, AcceptedType, OpenReplacementGuarded
<1>8. ASSUME NEW phone \in Phone, BondRemovalFails(phone)
      PROVE  enrollment' \in GuardedEnrollment
  BY <1>1, <1>2, <1>8, BondCountType, AcceptedType, BondRemovalFailedGuarded
     DEF BondRemovalFails
<1>9. CASE HidReady \/ \E phone \in Phone : SecReq(phone) \/ Encrypts(phone)
  BY <1>1, <1>9 DEF HidReady, SecReq, Encrypts
<1> QED
  BY <1>3, <1>4, <1>5, <1>6, <1>7, <1>8, <1>9 DEF GapEvent

LEMMA GattcEventEnrollment ==
  ASSUME Inv, GattcEvent
  PROVE  enrollment' \in GuardedEnrollment
<1>1. TypeOK /\ enrollment \in GuardedEnrollment
  BY HalvesOfInv
<1>2. hid_ready \in BOOLEAN
  BY <1>1 DEF TypeOK
<1>3. ASSUME NEW phone \in Phone, Connect(phone)
      PROVE  enrollment' \in GuardedEnrollment
  BY <1>1, <1>3, FlagsGuarded DEF Connect, Reject, Accept, Ignore
<1>4. ASSUME NEW phone \in Phone, Disconnects(phone)
      PROVE  enrollment' \in GuardedEnrollment
  <2> DEFINE e == [enrollment EXCEPT !.reopen_after_disconnect = FALSE]
  <2>1. e \in GuardedEnrollment
    BY <1>1 DEF GuardedEnrollment, Guarded, Enrollment
  <2>2. CASE session.connected /\ session.remote_bda = phone
    <3>1. PICK count \in BondCount, accepted \in Accepted("advertise"),
               timed \in Accepted("timer") :
            enrollment' =
              IF enrollment.reopen_after_disconnect
              THEN RequestEnroll(e, FALSE, count, hid_ready, accepted, timed)
              ELSE ScheduleAdvertisingRetry(e, FALSE)
      BY <1>4, <2>2 DEF Disconnects
    <3>2. RequestEnroll(e, FALSE, count, hid_ready, accepted, timed)
            \in GuardedEnrollment
      BY <1>1, <1>2, <2>1, BondCountType, AcceptedType, RequestEnrollGuarded
    <3>3. ScheduleAdvertisingRetry(e, FALSE) \in GuardedEnrollment
      BY <2>1, ScheduleRetryGuarded
    <3> QED
      BY <3>1, <3>2, <3>3
  <2> QED
    BY <1>1, <1>4, <2>2 DEF Disconnects
<1>5. CASE \/ OpenEvt \/ OpenEvtFails \/ MtuEvt \/ SearchRes \/ SearchCmpl
           \/ \E source \in Source : RegForNotify(source) \/ WriteDescr(source)
           \/ FinishWrite \/ ServiceChanged
  BY <1>1, <1>5 DEF OpenEvt, OpenEvtFails, MtuEvt, SearchRes, SearchCmpl,
       RegForNotify, WriteDescr, Answer, FinishWrite, ServiceChanged
<1> QED
  BY <1>3, <1>4, <1>5 DEF GattcEvent

LEMMA TimerTaskEnrollment ==
  ASSUME Inv, TimerTask
  PROVE  enrollment' \in GuardedEnrollment
<1>1. TypeOK /\ enrollment \in GuardedEnrollment
  BY HalvesOfInv
<1>2. session.connected \in BOOLEAN /\ hid_ready \in BOOLEAN
  BY <1>1 DEF TypeOK, Session
<1>3. CASE AdvertisingRetry
  <2>1. [enrollment EXCEPT !.advertising_retry = FALSE] \in GuardedEnrollment
    BY <1>1 DEF GuardedEnrollment, Guarded, Enrollment
  <2> QED
    BY <1>2, <1>3, <2>1, AcceptedType, StartAdvertisingGuarded
       DEF AdvertisingRetry, Advertises
<1>4. CASE WindowExpires
  BY <1>1, <1>4 DEF WindowExpires, WindowActive, GuardedEnrollment, Guarded,
       Enrollment
<1>5. CASE WindowTimeout \/ WindowStop
  BY <1>1, <1>5, CloseWindowGuarded, StopAdvertisingGuarded
     DEF WindowTimeout, WindowStop
<1>6. CASE DiscoveryRetry
  BY <1>1, <1>6 DEF DiscoveryRetry
<1> QED
  BY <1>3, <1>4, <1>5, <1>6 DEF TimerTask

LEMMA WorkerTaskEnrollment ==
  ASSUME Inv, WorkerTask
  PROVE  enrollment' \in GuardedEnrollment
<1>1. enrollment \in GuardedEnrollment
  BY HalvesOfInv
<1>2. UNCHANGED enrollment
  BY DEF WorkerTask, DeadlinePassed, DeadlineState, CloseDue, DeadlineClose,
       RequestWritten, RequestEnds, RequestFails, RecoverDataStream,
       RecoverState, RecoverClose
<1> QED
  BY <1>1, <1>2

LEMMA CallerTaskEnrollment ==
  ASSUME Inv, CallerTask
  PROVE  enrollment' \in GuardedEnrollment
<1>1. TypeOK /\ enrollment \in GuardedEnrollment
  BY HalvesOfInv
<1>2. session.connected \in BOOLEAN /\ hid_ready \in BOOLEAN /\ seen \in Int
  BY <1>1 DEF TypeOK, Session
<1>3. ASSUME NEW e \in GuardedEnrollment, NEW on \in BOOLEAN
      PROVE  /\ [e EXCEPT !.replace_pending = on] \in GuardedEnrollment
             /\ [e EXCEPT !.reopen_after_disconnect = on] \in GuardedEnrollment
  BY DEF GuardedEnrollment, Guarded, Enrollment
<1>4. CASE EnrollSync
  BY <1>1, <1>2, <1>4, SyncBondsGuarded DEF EnrollSync
<1>5. CASE EnrollOpen
  BY <1>1, <1>2, <1>5, AcceptedType, EnrollGrantedGuarded DEF EnrollOpen
<1>6. CASE ReplaceCall
  BY <1>1, <1>6, ClearGuardGuarded DEF ReplaceCall
<1>7. CASE ReplaceMark
  <2>1. (seen > 0) \in BOOLEAN
    OBVIOUS
  <2>2. [enrollment EXCEPT !.replace_pending = seen > 0] \in GuardedEnrollment
    BY <1>1, <1>3, <2>1
  <2> QED
    BY <1>1, <1>7, <2>2 DEF ReplaceMark
<1>8. CASE ReplaceStop
  BY <1>1, <1>8, StopAdvertisingGuarded DEF ReplaceStop
<1>9. CASE ReplaceRemove
  BY <1>1, <1>9, ClearBondGuarded DEF ReplaceRemove
<1>10. CASE ReplaceFailed
  BY <1>1, <1>2, <1>10, BondCountType, AcceptedType, BondRemovalFailedGuarded
     DEF ReplaceFailed
<1>11. CASE ReplaceCheck
  BY <1>1, <1>3, <1>11 DEF ReplaceCheck
<1>12. CASE ReplaceOpen
  BY <1>1, <1>3, <1>12 DEF ReplaceOpen
<1>13. CASE RequestEnrollCall \/ EnrollAsk \/ ReplaceRemoveFails
  BY <1>1, <1>13 DEF RequestEnrollCall, EnrollAsk, ReplaceRemoveFails
<1> QED
  BY <1>4, <1>5, <1>6, <1>7, <1>8, <1>9, <1>10, <1>11, <1>12, <1>13
     DEF CallerTask

-----------------------------------------------------------------------------
(* A device on the air is attended by every task.                          *)
LEMMA GapEventAttended ==
  ASSUME Inv, GapEvent, radio'
  PROVE  enrollment' \in AttendedEnrollment
<1>1. /\ TypeOK /\ enrollment \in GuardedEnrollment /\ enrollment \in Enrollment
      /\ radio => enrollment \in AttendedEnrollment
  BY HalvesOfInv DEF GuardedEnrollment
<1>2. session.connected \in BOOLEAN /\ hid_ready \in BOOLEAN
  BY <1>1 DEF TypeOK, Session
<1>3. CASE AdvStartComplete
  <2>1. Taken \in GuardedEnrollment
    <3>1. enrollment.commands \in Seq({"start", "stop"}) /\ enrollment.commands # << >>
      BY <1>1, <1>3 DEF Enrollment, AdvStartComplete, Advertiser
    <3>2. Tail(enrollment.commands) \in Seq({"start", "stop"})
      BY <3>1
    <3> QED
      BY <1>1, <3>2 DEF Taken, GuardedEnrollment, Guarded, Enrollment
  <2> QED
    BY <1>2, <1>3, <2>1, AdvertisingStartedAttended DEF AdvStartComplete
<1>4. CASE AdvStartFails \/ AdvStops
  BY <1>4 DEF AdvStartFails, AdvStops
<1>5. CASE AdvDataSet
  <2>1. enrollment \in AttendedEnrollment
    BY <1>1, <1>5 DEF AdvDataSet, stack
  <2>2. /\ [enrollment EXCEPT !.adv_configured = TRUE] \in GuardedEnrollment
        /\ [enrollment EXCEPT !.adv_configured = TRUE] \in AttendedEnrollment
    BY <1>1, <2>1, ReplaceAttended DEF GuardedEnrollment, Guarded, Enrollment
  <2> QED
    BY <1>2, <1>5, <2>2, AcceptedType, StartAdvertisingAttended
    DEF AdvDataSet, Advertises
<1>6. ASSUME NEW phone \in Phone, AuthCmplSuccess(phone)
      PROVE  enrollment' \in AttendedEnrollment
  <2>1. enrollment \in AttendedEnrollment
    BY <1>1, <1>6 DEF AuthCmplSuccess
  <2>2. /\ NoteBonded(ClearGuard(enrollment)) \in GuardedEnrollment
        /\ NoteBonded(ClearGuard(enrollment)) \in AttendedEnrollment
    BY <1>1, <2>1, ClearGuardGuarded, NoteBondedGuarded, GuardAttended
  <2>3. \/ enrollment' = enrollment
        \/ enrollment' = StopAdvertising(NoteBonded(ClearGuard(enrollment)))
    BY <1>6 DEF AuthCmplSuccess
  <2> QED
    BY <2>1, <2>2, <2>3, StopAdvertisingAttended
<1>7. ASSUME NEW phone \in Phone, AuthCmplFailure(phone)
      PROVE  enrollment' \in AttendedEnrollment
  <2>1. enrollment \in AttendedEnrollment
    BY <1>1, <1>7 DEF AuthCmplFailure
  <2>2. CASE AuthenticationExpected(phone)
    <3>1. PICK in_window \in BOOLEAN, count \in BondCount :
            LET noted == RecordAuthFailure(enrollment, in_window, count = 0)
            IN  enrollment' = IF noted.pairing_repair_required
                              THEN StopAdvertising(noted)
                              ELSE ScheduleAdvertisingRetry(noted, session.connected)
      BY <1>7, <2>2 DEF AuthCmplFailure
    <3>2. /\ RecordAuthFailure(enrollment, in_window, count = 0) \in GuardedEnrollment
          /\ RecordAuthFailure(enrollment, in_window, count = 0) \in AttendedEnrollment
      BY <1>1, <2>1, RecordAuthFailureGuarded, RecordAuthFailureAttended
    <3> QED
      BY <1>2, <3>1, <3>2, StopAdvertisingAttended, ScheduleRetryAttended
  <2> QED
    BY <1>7, <2>1, <2>2 DEF AuthCmplFailure
<1>8. ASSUME NEW phone \in Phone, BondIsRemoved(phone)
      PROVE  enrollment' \in AttendedEnrollment
  <2>1. PICK count \in {Cardinality(bonds')} \cup (BondCount \cap {Unknown}),
             accepted \in Accepted("advertise"), timed \in Accepted("timer") :
          LET removed == BondRemoved(enrollment, count)
          IN  enrollment' =
                IF count = 0 /\ enrollment.replace_pending
                THEN OpenReplacementWindow(removed, session.connected, count,
                                           hid_ready, accepted, timed)
                ELSE removed
    BY <1>8 DEF BondIsRemoved
  <2>2. count \in Int
    BY <1>1, <1>8, <2>1, RemainingBonds
  <2>3. enrollment \in AttendedEnrollment
    BY <1>1, <1>8 DEF BondIsRemoved
  <2>4. /\ BondRemoved(enrollment, count) \in GuardedEnrollment
        /\ BondRemoved(enrollment, count) \in AttendedEnrollment
    BY <1>1, <2>2, <2>3, BondRemovedGuarded, BondRemovedAttended
  <2> QED
    BY <1>2, <2>1, <2>2, <2>4, AcceptedType, OpenReplacementAttended
<1>9. ASSUME NEW phone \in Phone, BondRemovalFails(phone)
      PROVE  enrollment' \in AttendedEnrollment
  <2>1. enrollment \in AttendedEnrollment
    BY <1>1, <1>9 DEF BondRemovalFails
  <2> QED
    BY <1>1, <1>2, <1>9, <2>1, BondCountType, AcceptedType, BondRemovalFailedAttended
       DEF BondRemovalFails
<1>10. CASE HidReady \/ \E phone \in Phone : SecReq(phone) \/ Encrypts(phone)
  BY <1>1, <1>10 DEF HidReady, SecReq, Encrypts
<1> QED
  BY <1>3, <1>4, <1>5, <1>6, <1>7, <1>8, <1>9, <1>10 DEF GapEvent

(* The advertiser stops when a phone connects.                             *)
LEMMA GattcEventAttended ==
  ASSUME Inv, GattcEvent, radio'
  PROVE  enrollment' \in AttendedEnrollment
<1>1. /\ TypeOK /\ enrollment \in GuardedEnrollment
      /\ radio => enrollment \in AttendedEnrollment
  BY HalvesOfInv
<1>2. hid_ready \in BOOLEAN
  BY <1>1 DEF TypeOK
<1>3. ASSUME NEW phone \in Phone, Connect(phone)
      PROVE  FALSE
  BY <1>3 DEF Connect, PhoneConnects
<1>4. ASSUME NEW phone \in Phone, Disconnects(phone)
      PROVE  enrollment' \in AttendedEnrollment
  <2> DEFINE e == [enrollment EXCEPT !.reopen_after_disconnect = FALSE]
  <2>1. enrollment \in AttendedEnrollment
    BY <1>1, <1>4 DEF Disconnects
  <2>2. e \in GuardedEnrollment /\ e \in AttendedEnrollment
    BY <1>1, <2>1, ReplaceAttended DEF GuardedEnrollment, Guarded, Enrollment
  <2>3. CASE session.connected /\ session.remote_bda = phone
    <3>1. PICK count \in BondCount, accepted \in Accepted("advertise"),
               timed \in Accepted("timer") :
            enrollment' =
              IF enrollment.reopen_after_disconnect
              THEN RequestEnroll(e, FALSE, count, hid_ready, accepted, timed)
              ELSE ScheduleAdvertisingRetry(e, FALSE)
      BY <1>4, <2>3 DEF Disconnects
    <3> HIDE DEF e
    <3>2. RequestEnroll(e, FALSE, count, hid_ready, accepted, timed)
            \in AttendedEnrollment
      BY <1>1, <1>2, <2>2, BondCountType, AcceptedType, RequestEnrollAttended
    <3>3. ScheduleAdvertisingRetry(e, FALSE) \in AttendedEnrollment
      BY <2>2, ScheduleRetryAttended
    <3> QED
      BY <3>1, <3>2, <3>3
  <2> QED
    BY <1>4, <2>1, <2>3 DEF Disconnects
<1>5. CASE \/ OpenEvt \/ OpenEvtFails \/ MtuEvt \/ SearchRes \/ SearchCmpl
           \/ \E source \in Source : RegForNotify(source) \/ WriteDescr(source)
           \/ FinishWrite \/ ServiceChanged
  BY <1>1, <1>5 DEF OpenEvt, OpenEvtFails, MtuEvt, SearchRes, SearchCmpl,
       RegForNotify, WriteDescr, Answer, FinishWrite, ServiceChanged, stack
<1> QED
  BY <1>3, <1>4, <1>5 DEF GattcEvent

LEMMA OtherTasksAttended ==
  ASSUME Inv, TimerTask \/ WorkerTask \/ CallerTask, radio'
  PROVE  enrollment' \in AttendedEnrollment
<1>1. /\ TypeOK /\ enrollment \in GuardedEnrollment
      /\ radio => enrollment \in AttendedEnrollment
  BY HalvesOfInv
<1>2. session.connected \in BOOLEAN /\ hid_ready \in BOOLEAN /\ seen \in Int
  BY <1>1 DEF TypeOK, Session
<1>3. UNCHANGED radio
  BY DEF TimerTask, AdvertisingRetry, DiscoveryRetry, WindowExpires, WindowTimeout,
     WindowStop, WorkerTask, DeadlinePassed, DeadlineState, CloseDue, DeadlineClose,
     RequestWritten, RequestEnds, RequestFails, RecoverDataStream, RecoverState,
     RecoverClose, Worker, CallerTask, RequestEnrollCall, EnrollAsk, EnrollSync,
     EnrollOpen, ReplaceCall, ReplaceMark, ReplaceStop, ReplaceRemove,
     ReplaceRemoveFails, ReplaceFailed, ReplaceCheck, ReplaceOpen, Calls, Caller, stack
<1>4. enrollment \in AttendedEnrollment
  BY <1>1, <1>3
<1>5. CASE UNCHANGED enrollment
  BY <1>4, <1>5
<1>6. CASE AdvertisingRetry
  <2>1. /\ [enrollment EXCEPT !.advertising_retry = FALSE] \in GuardedEnrollment
        /\ [enrollment EXCEPT !.advertising_retry = FALSE] \in AttendedEnrollment
    BY <1>1, <1>4, ReplaceAttended DEF GuardedEnrollment, Guarded, Enrollment
  <2> QED
    BY <1>2, <1>6, <2>1, AcceptedType, StartAdvertisingAttended
       DEF AdvertisingRetry, Advertises
<1>7. CASE WindowExpires \/ WindowTimeout \/ WindowStop
  BY <1>1, <1>4, <1>7, ReplaceAttended, GuardAttended, StopAdvertisingAttended
     DEF WindowExpires, WindowTimeout, WindowStop
<1>8. CASE EnrollSync \/ EnrollOpen
  BY <1>1, <1>2, <1>4, <1>8, AcceptedType, GuardAttended, EnrollGrantedAttended
     DEF EnrollSync, EnrollOpen
<1>9. CASE ReplaceCall \/ ReplaceStop \/ ReplaceRemove
  BY <1>1, <1>4, <1>9, GuardAttended, StopAdvertisingAttended
     DEF ReplaceCall, ReplaceStop, ReplaceRemove
<1>10. CASE ReplaceMark
  <2>1. (seen > 0) \in BOOLEAN
    OBVIOUS
  <2>2. [enrollment EXCEPT !.replace_pending = seen > 0] \in AttendedEnrollment
    BY <1>4, <2>1, ReplaceAttended
  <2> QED
    BY <1>4, <1>10, <2>2 DEF ReplaceMark
<1>11. CASE ReplaceFailed
  BY <1>1, <1>2, <1>4, <1>11, BondCountType, AcceptedType, BondRemovalFailedAttended
     DEF ReplaceFailed
<1>12. CASE ReplaceCheck \/ ReplaceOpen
  BY <1>4, <1>12, ReplaceAttended DEF ReplaceCheck, ReplaceOpen
<1>13. CASE \/ DiscoveryRetry \/ WorkerTask
            \/ RequestEnrollCall \/ EnrollAsk \/ ReplaceRemoveFails
  BY <1>5, <1>13
  DEF DiscoveryRetry, WorkerTask, DeadlinePassed, DeadlineState, CloseDue,
     DeadlineClose, RequestWritten, RequestEnds, RequestFails, RecoverDataStream,
     RecoverState, RecoverClose, RequestEnrollCall, EnrollAsk, ReplaceRemoveFails
<1> QED
  BY <1>6, <1>7, <1>8, <1>9, <1>10, <1>11, <1>12, <1>13 DEF TimerTask, CallerTask

-----------------------------------------------------------------------------
(* What TypeOK says of the stack and of the tasks.                         *)
StackType ==
  /\ radio \in BOOLEAN /\ hid_ready \in BOOLEAN /\ stopping \in BOOLEAN
  /\ closing_links \subseteq links /\ links \subseteq Phone
  /\ encryption \in [Phone -> {"none", "pairing", "encrypting", "encrypted"}]
  /\ bonds \subseteq Phone /\ removals \subseteq Phone

TaskType ==
  /\ writing \in {None} \cup Source
  /\ request \in Nat \cup {None}
  /\ worker_peer \in Phone \cup {None} /\ seen \in Int

LEMMA PartsOfTypeOK ==
  TypeOK <=> session \in Session /\ enrollment \in Enrollment /\ StackType /\ TaskType
BY DEF TypeOK, StackType, TaskType

(* A disconnect is only asked of the stack on a link that is there.        *)
LEMMA DisconnectType ==
  ASSUME StackType, NEW phone, Disconnect(phone), UNCHANGED links
  PROVE  closing_links' \subseteq links'
BY DEF StackType, Disconnect, CloseLink, NoDisconnect

LEMMA EncryptedType ==
  ASSUME StackType, NEW phone \in Phone,
         NEW stage \in {"none", "pairing", "encrypting", "encrypted"},
         Encrypted(phone, stage)
  PROVE  encryption' \in [Phone -> {"none", "pairing", "encrypting", "encrypted"}]
BY DEF StackType, Encrypted

LEMMA GapEventStack ==
  ASSUME StackType, GapEvent
  PROVE  StackType'
<1>1. CASE AdvDataSet
  BY <1>1 DEF AdvDataSet, Btc, stack, StackType
<1>2. CASE HidReady
  BY <1>2 DEF HidReady, Btc, StackType
<1>3. CASE AdvStartComplete \/ AdvStartFails \/ AdvStops
  BY <1>3 DEF AdvStartComplete, AdvStartFails, AdvStops, Advertiser, Btc, StackType
<1>4. ASSUME NEW phone \in Phone, SecReq(phone)
      PROVE  StackType'
  <2>1. UNCHANGED << radio, hid_ready, stopping, links, bonds, removals >>
    BY <1>4 DEF SecReq, Btc
  <2>2. \/ Encrypted(phone, "pairing") /\ NoDisconnect
        \/ UNCHANGED encryption /\ Disconnect(phone)
    BY <1>4 DEF SecReq
  <2>3. encryption' \in [Phone -> {"none", "pairing", "encrypting", "encrypted"}]
    BY <2>2, EncryptedType DEF StackType
  <2>4. closing_links' \subseteq links'
    BY <2>1, <2>2, DisconnectType DEF NoDisconnect, StackType
  <2> QED
    BY <2>1, <2>3, <2>4 DEF StackType
<1>5. ASSUME NEW phone \in Phone, Encrypts(phone)
      PROVE  StackType'
  <2>1. UNCHANGED << radio, hid_ready, stopping, links, closing_links, bonds, removals >>
    BY <1>5 DEF Encrypts, Btc
  <2>2. encryption' \in [Phone -> {"none", "pairing", "encrypting", "encrypted"}]
    BY <1>5, EncryptedType DEF Encrypts
  <2> QED
    BY <2>1, <2>2 DEF StackType
<1>6. ASSUME NEW phone \in Phone, AuthCmplSuccess(phone)
      PROVE  StackType'
  <2>1. UNCHANGED << radio, hid_ready, stopping, links, closing_links, removals >>
    BY <1>6 DEF AuthCmplSuccess, Btc
  <2>2. encryption' \in [Phone -> {"none", "pairing", "encrypting", "encrypted"}]
    BY <1>6, EncryptedType DEF AuthCmplSuccess
  <2>3. bonds' \subseteq Phone
    BY <1>6 DEF AuthCmplSuccess, StackType
  <2> QED
    BY <2>1, <2>2, <2>3 DEF StackType
<1>7. ASSUME NEW phone \in Phone, AuthCmplFailure(phone)
      PROVE  StackType'
  <2>1. UNCHANGED << radio, hid_ready, stopping, links, bonds, removals >>
    BY <1>7 DEF AuthCmplFailure, Btc
  <2>2. encryption' \in [Phone -> {"none", "pairing", "encrypting", "encrypted"}]
    BY <1>7, EncryptedType DEF AuthCmplFailure
  <2>3. Disconnect(phone) \/ UNCHANGED closing_links
    BY <1>7 DEF AuthCmplFailure
  <2>4. closing_links' \subseteq links'
    BY <2>1, <2>3, DisconnectType DEF StackType
  <2> QED
    BY <2>1, <2>2, <2>4 DEF StackType
<1>8. ASSUME NEW phone \in Phone, BondIsRemoved(phone) \/ BondRemovalFails(phone)
      PROVE  StackType'
  BY <1>8 DEF BondIsRemoved, BondRemovalFails, Btc, StackType
<1> QED
  BY <1>1, <1>2, <1>3, <1>4, <1>5, <1>6, <1>7, <1>8 DEF GapEvent

LEMMA GattcEventStack ==
  ASSUME StackType, GattcEvent
  PROVE  StackType'
<1>1. ASSUME NEW phone \in Phone, Connect(phone)
      PROVE  StackType'
  <2>1. /\ radio' = FALSE /\ links' = links \cup {phone}
        /\ UNCHANGED << hid_ready, stopping, encryption, bonds, removals >>
    BY <1>1 DEF Connect, PhoneConnects, Btc
  <2>2. CloseLink(phone) \/ UNCHANGED closing_links
    BY <1>1 DEF Connect, Reject, Accept, Ignore, NoDisconnect
  <2>3. closing_links' \subseteq links'
    BY <2>1, <2>2 DEF CloseLink, StackType
  <2> QED
    BY <2>1, <2>3 DEF StackType
<1>2. ASSUME NEW phone \in Phone, Disconnects(phone)
      PROVE  StackType'
  <2>1. /\ links' = links \ {phone} /\ closing_links' = closing_links \ {phone}
        /\ UNCHANGED << radio, hid_ready, stopping, bonds, removals >>
    BY <1>2 DEF Disconnects, Btc
  <2>2. encryption' \in [Phone -> {"none", "pairing", "encrypting", "encrypted"}]
    BY <1>2, EncryptedType DEF Disconnects
  <2> QED
    BY <2>1, <2>2 DEF StackType
<1>3. CASE OpenEvt \/ OpenEvtFails
  <2>1. UNCHANGED << radio, links, encryption, bonds, removals, hid_ready, stopping >>
    BY <1>3 DEF OpenEvt, OpenEvtFails, Answer, Btc
  <2>2. Disconnect(session.remote_bda) \/ UNCHANGED closing_links
    BY <1>3 DEF OpenEvt, OpenEvtFails, NoDisconnect
  <2>3. closing_links' \subseteq links'
    BY <2>1, <2>2, DisconnectType DEF StackType
  <2> QED
    BY <2>1, <2>3 DEF StackType
<1>4. CASE \/ MtuEvt \/ SearchRes \/ SearchCmpl
           \/ \E source \in Source : RegForNotify(source) \/ WriteDescr(source)
  <2>1. UNCHANGED << radio, links, closing_links, encryption, bonds, removals,
                     hid_ready, stopping >>
    BY <1>4 DEF MtuEvt, SearchRes, SearchCmpl, RegForNotify, WriteDescr,
         Answer, Quietly, Btc
  <2> QED
    BY <2>1 DEF StackType
<1>5. CASE FinishWrite \/ ServiceChanged
  BY <1>5 DEF FinishWrite, ServiceChanged, Btc, stack, StackType
<1> QED
  BY <1>1, <1>2, <1>3, <1>4, <1>5 DEF GattcEvent

LEMMA OtherTasksStack ==
  ASSUME StackType, TimerTask \/ WorkerTask \/ CallerTask
  PROVE  StackType'
<1>1. CASE TimerTask
  <2>1. UNCHANGED stack
    BY <1>1 DEF TimerTask, AdvertisingRetry, DiscoveryRetry, WindowExpires,
         WindowTimeout, WindowStop
  <2>2. stopping' \in BOOLEAN
    BY <1>1 DEF TimerTask, AdvertisingRetry, DiscoveryRetry, WindowExpires,
         WindowTimeout, WindowStop, StackType
  <2> QED
    BY <2>1, <2>2 DEF stack, StackType
<1>2. CASE WorkerTask
  <2>1. UNCHANGED << radio, links, encryption, bonds, removals, hid_ready, stopping >>
    BY <1>2 DEF WorkerTask, DeadlinePassed, DeadlineState, CloseDue, DeadlineClose,
         RequestWritten, RequestEnds, RequestFails, RecoverDataStream,
         RecoverState, RecoverClose, Worker
  <2>2. Disconnect(worker_peer) \/ UNCHANGED closing_links
    BY <1>2 DEF WorkerTask, DeadlinePassed, DeadlineState, CloseDue, DeadlineClose,
         RequestWritten, RequestEnds, RequestFails, RecoverDataStream,
         RecoverState, RecoverClose
  <2>3. closing_links' \subseteq links'
    BY <2>1, <2>2, DisconnectType DEF StackType
  <2> QED
    BY <2>1, <2>3 DEF StackType
<1>3. CASE CallerTask
  <2>1. UNCHANGED << radio, links, encryption, bonds, hid_ready, stopping >>
    BY <1>3 DEF CallerTask, RequestEnrollCall, EnrollAsk, EnrollSync, EnrollOpen,
         ReplaceCall, ReplaceMark, ReplaceStop, ReplaceRemove, ReplaceRemoveFails,
         ReplaceFailed, ReplaceCheck, ReplaceOpen, Calls, Caller
  <2>2. Disconnect(session.remote_bda) \/ UNCHANGED closing_links
    BY <1>3 DEF CallerTask, RequestEnrollCall, EnrollAsk, EnrollSync, EnrollOpen,
         ReplaceCall, ReplaceMark, ReplaceStop, ReplaceRemove, ReplaceRemoveFails,
         ReplaceFailed, ReplaceCheck, ReplaceOpen, NoDisconnect
  <2>3. closing_links' \subseteq links'
    BY <2>1, <2>2, DisconnectType DEF StackType
  <2>4. removals' \subseteq Phone
    BY <1>3 DEF CallerTask, RequestEnrollCall, EnrollAsk, EnrollSync, EnrollOpen,
         ReplaceCall, ReplaceMark, ReplaceStop, ReplaceRemove, ReplaceRemoveFails,
         ReplaceFailed, ReplaceCheck, ReplaceOpen, StackType
  <2> QED
    BY <2>1, <2>3, <2>4 DEF StackType
<1> QED
  BY <1>1, <1>2, <1>3

LEMMA NextTasks ==
  ASSUME TypeOK, Next
  PROVE  TaskType'
<1>1. TaskType /\ session \in Session
  BY PartsOfTypeOK
<1>2. CASE GapEvent
  <2>1. UNCHANGED << writing, workerVars, callerVars >>
    BY <1>2 DEF GapEvent, AdvDataSet, HidReady, AdvStartComplete, AdvStartFails,
         AdvStops, Advertiser, SecReq, Encrypts, AuthCmplSuccess, AuthCmplFailure,
         BondIsRemoved, BondRemovalFails, Btc
  <2> QED
    BY <1>1, <2>1 DEF TaskType, workerVars, callerVars
<1>3. CASE GattcEvent
  <2>1. UNCHANGED << workerVars, callerVars >>
    BY <1>3
    DEF GattcEvent, Connect, PhoneConnects, Disconnects, OpenEvt, OpenEvtFails,
         MtuEvt, SearchRes, SearchCmpl, RegForNotify, WriteDescr, Answer,
         FinishWrite, ServiceChanged, Btc
  <2>2. writing' \in {None} \cup Source
    BY <1>1, <1>3 DEF GattcEvent, Connect, PhoneConnects, Disconnects, OpenEvt,
         OpenEvtFails, MtuEvt, SearchRes, SearchCmpl, RegForNotify, WriteDescr,
         Quietly, FinishWrite, ServiceChanged, TaskType
  <2> QED
    BY <1>1, <2>1, <2>2 DEF TaskType, workerVars, callerVars
<1>4. CASE TimerTask
  BY <1>1, <1>4 DEF TimerTask, AdvertisingRetry, DiscoveryRetry, WindowExpires,
       WindowTimeout, WindowStop, TaskType, workerVars, callerVars
<1>5. CASE WorkerTask
  <2>1. session.generation \in Nat /\ session.remote_bda \in Phone \cup {None}
    BY <1>1 DEF Session
  <2>2. request' \in Nat \cup {None} /\ worker_peer' \in Phone \cup {None}
    BY <1>1, <1>5, <2>1 DEF WorkerTask, DeadlinePassed, DeadlineState, CloseDue,
         DeadlineClose, RequestWritten, RequestEnds, RequestFails,
         RecoverDataStream, RecoverState, RecoverClose, TaskType
  <2>3. UNCHANGED << writing, callerVars >>
    BY <1>5 DEF WorkerTask, DeadlinePassed, DeadlineState, CloseDue,
         DeadlineClose, RequestWritten, RequestEnds, RequestFails,
         RecoverDataStream, RecoverState, RecoverClose, Worker
  <2> QED
    BY <1>1, <2>2, <2>3 DEF TaskType, callerVars
<1>6. CASE CallerTask
  <2>1. UNCHANGED << writing, workerVars >>
    BY <1>6 DEF CallerTask, RequestEnrollCall, EnrollAsk, EnrollSync, EnrollOpen,
         ReplaceCall, ReplaceMark, ReplaceStop, ReplaceRemove, ReplaceRemoveFails,
         ReplaceFailed, ReplaceCheck, ReplaceOpen, Calls, Caller
  <2>2. seen' \in BondCount \cup {seen, Unknown}
    BY <1>6 DEF CallerTask, RequestEnrollCall, EnrollAsk, EnrollSync, EnrollOpen,
         ReplaceCall, ReplaceMark, ReplaceStop, ReplaceRemove, ReplaceRemoveFails,
         ReplaceFailed, ReplaceCheck, ReplaceOpen
  <2>3. seen' \in Int
    BY <1>1, <2>2, BondCountType DEF TaskType, Unknown
  <2> QED
    BY <1>1, <2>1, <2>3 DEF TaskType, workerVars
<1> QED
  BY <1>2, <1>3, <1>4, <1>5, <1>6 DEF Next

-----------------------------------------------------------------------------
LEMMA InvInit ==
  ASSUME Init
  PROVE  Inv
<1>1. session \in SoundSession /\ enrollment \in GuardedEnrollment
  BY InitialSessionSound, InitialEnrollmentGuarded DEF Init
<1>2. TaskType
  BY DEF Init, TaskType, Unknown
<1>3. StackType
  <2>1. bonds \subseteq Phone
    BY DEF Init
  <2>2. encryption \in [Phone -> {"none", "pairing", "encrypting", "encrypted"}]
    BY DEF Init
  <2> QED
    BY <2>1, <2>2 DEF Init, StackType
<1>4. ~radio
  BY DEF Init
<1> QED
  BY <1>1, <1>2, <1>3, <1>4, HalvesOfInv, PartsOfTypeOK
  DEF SoundSession, GuardedEnrollment

LEMMA InvNext ==
  ASSUME Inv, [Next]_vars
  PROVE  Inv'
<1>1. CASE Next
  <2>1. session' \in SoundSession
    BY <1>1, GapEventSession, GattcEventSession, TimerTaskSession,
       WorkerTaskSession, CallerTaskSession DEF Next
  <2>2. enrollment' \in GuardedEnrollment
    BY <1>1, GapEventEnrollment, GattcEventEnrollment, TimerTaskEnrollment,
       WorkerTaskEnrollment, CallerTaskEnrollment DEF Next
  <2>3. StackType'
    BY <1>1, PartsOfTypeOK, GapEventStack, GattcEventStack, OtherTasksStack
       DEF Next, Inv
  <2>4. TaskType'
    BY <1>1, NextTasks DEF Inv
  <2>5. radio' => enrollment' \in AttendedEnrollment
    BY <1>1, GapEventAttended, GattcEventAttended, OtherTasksAttended DEF Next
  <2>6. TypeOK' /\ ReadyIsSecured' /\ DiscoveryIsUnderway' /\ RepairClosesWindow'
    BY <2>1, <2>2, <2>3, <2>4 DEF TypeOK, ReadyIsSecured, DiscoveryIsUnderway,
         RepairClosesWindow, StackType, TaskType, SoundSession, Secured, Underway,
         Searching, GuardedEnrollment, Guarded
  <2>7. AdvertisingIsAccounted'
    BY <2>5 DEF AdvertisingIsAccounted, AttendedEnrollment, Stopping
  <2> QED
    BY <2>6, <2>7 DEF Inv
<1>2. CASE UNCHANGED vars
  BY <1>2 DEF Inv, TypeOK, ReadyIsSecured, DiscoveryIsUnderway, RepairClosesWindow,
       AdvertisingIsAccounted, vars, stack, workerVars, callerVars
<1> QED
  BY <1>1, <1>2

LEMMA InvHolds == Spec => []Inv
<1>1. Init => Inv
  BY InvInit
<1>2. Inv /\ [Next]_vars => Inv'
  BY InvNext
<1> QED
  BY <1>1, <1>2, PTL DEF Spec

(* Every variable of the link stays in its range, in particular the three  *)
(* attempts to close, the two retries of a discovery and the count of      *)
(* authentication failures.                                                *)
THEOREM TypeCorrect == Spec => []TypeOK
<1>1. Inv => TypeOK
  BY DEF Inv
<1> QED
  BY <1>1, InvHolds, PTL

(* ESP_GATTC_WRITE_DESCR_EVT (ancs_client.c:1903): a session that says it  *)
(* is ready has a connected, authenticated and encrypted link, a service   *)
(* and both subscriptions.                                                 *)
THEOREM ReadySecured == Spec => []ReadyIsSecured
<1>1. Inv => ReadyIsSecured
  BY DEF Inv
<1> QED
  BY <1>1, InvHolds, PTL

(* start_discovery (ancs_client.c:1149): a discovery in progress waits for *)
(* a search, however often it was restarted, given up or interrupted.      *)
THEOREM SearchUnderway == Spec => []DiscoveryIsUnderway
<1>1. Inv => DiscoveryIsUnderway
  BY DEF Inv
<1> QED
  BY <1>1, InvHolds, PTL

(* record_auth_failure (ancs_client.c:448): while a repair is asked for no *)
(* enrollment window is open.                                              *)
THEOREM RepairLocked == Spec => []RepairClosesWindow
<1>1. Inv => RepairClosesWindow
  BY DEF Inv
<1> QED
  BY <1>1, InvHolds, PTL

(* start_advertising and stop_advertising (ancs_client.c:1106, :1132):     *)
(* between the commands under way and the four tasks that give them, no    *)
(* device stays on the air with its flag cleared and no stop to come.      *)
THEOREM AdvertisingAccounted == Spec => []AdvertisingIsAccounted
<1>1. Inv => AdvertisingIsAccounted
  BY DEF Inv
<1> QED
  BY <1>1, InvHolds, PTL
=============================================================================
