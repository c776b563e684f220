--------------------- MODULE ProvisioningRuntime_proofs ---------------------
(***************************************************************************)
(* The Wi-Fi station implements StationPort, and reports no address it     *)
(* does not have, for any profiles, any faults and any number of events    *)
(* waiting.  The invariant behind both: an address belongs to a station    *)
(* that runs, that no stop fences off and whose policy knows it is online, *)
(* and a station that runs has its interface.  That no failure of an       *)
(* earlier station counts needs that what is old in the loop has the       *)
(* STA_STOP of its stop behind it and none before (OldIsFenced).           *)
(*                                                                         *)
(* The attempts of its retry policy keep their distances: the policy's two *)
(* counters say what the history says, and while it waits to try again the *)
(* time that has passed and the time still to wait make up the whole       *)
(* distance (RetryInv).                                                    *)
(***************************************************************************)
EXTENDS ProvisioningRuntime, ProvisioningRetry, TLAPS

AddressHasStation ==
  sta.has_ip => sta.started /\ ~sta.stop_pending /\ retry.online

OnlineHasAddress == retry.online /\ ~retry.paused => sta.has_ip

InterfaceIsUp ==
  /\ sta.started => driver.up
  /\ driver.link # "down" => driver.up

IInv ==
  /\ RuntimeTypeOK
  /\ AddressHasStation
  /\ OnlineHasAddress
  /\ InterfaceIsUp
  /\ AddressIsLive

LossComes(events) == \E i \in 1 .. Len(events) : events[i].kind = "DISCONNECTED"

Flags ==
  [started : BOOLEAN, has_ip : BOOLEAN, interface_ready : BOOLEAN,
   stop_pending : BOOLEAN, expected : Profile \cup {NoProfile}]

RuntimePolicy ==
  [paused : BOOLEAN, online : BOOLEAN, in_flight : BOOLEAN, announced : BOOLEAN]

Drivers ==
  [up : BOOLEAN, profile : Profile \cup {NoProfile},
   link : {"down", "trying", "joined"}, ip : BOOLEAN]

Queues == Seq(DriverEvents)

LEMMA TypeIs ==
  RuntimeTypeOK <=> /\ sta \in Flags /\ retry \in RuntimePolicy /\ ap \in BOOLEAN
             /\ driver \in Drivers /\ loop \in Queues
BY DEF RuntimeTypeOK, Flags, RuntimePolicy, Drivers, Queues

LEMMA LiveIs == AddressIsLive <=> (sta.has_ip => LiveIp \/ LossComes(loop))
BY DEF AddressIsLive, LossComes

-----------------------------------------------------------------------------
(* The queue of events.                                                    *)
LEMMA EventIs ==
  /\ Event("STA_START") \in Queues /\ Event("STA_STOP") \in Queues
  /\ Event("DISCONNECTED") \in Queues /\ Event("GOT_IP") \in Queues
  /\ << >> \in Queues /\ LossComes(Event("DISCONNECTED"))
<1>1. ASSUME NEW kind \in {"STA_START", "STA_STOP", "DISCONNECTED", "GOT_IP"}
      PROVE  Event(kind) \in Queues
  BY DEF Event, Queues, DriverEvents
<1>2. LossComes(Event("DISCONNECTED"))
  BY DEF LossComes, Event
<1> QED
  BY <1>1, <1>2 DEF Queues

LEMMA Appended ==
  ASSUME NEW s \in Queues, NEW t \in Queues
  PROVE  /\ s \o t \in Queues
         /\ LossComes(s) \/ LossComes(t) => LossComes(s \o t)
<1>1. s \o t \in Queues /\ Len(s \o t) = Len(s) + Len(t)
  BY DEF Queues
<1>2. ASSUME LossComes(s) PROVE LossComes(s \o t)
  <2>1. PICK i \in 1 .. Len(s) : s[i].kind = "DISCONNECTED"
    BY <1>2 DEF LossComes
  <2>2. i \in 1 .. Len(s \o t) /\ (s \o t)[i] = s[i]
    BY <1>1, <2>1 DEF Queues
  <2> QED
    BY <2>1, <2>2 DEF LossComes
<1>3. ASSUME LossComes(t) PROVE LossComes(s \o t)
  <2>1. PICK i \in 1 .. Len(t) : t[i].kind = "DISCONNECTED"
    BY <1>3 DEF LossComes
  <2>2. Len(s) + i \in 1 .. Len(s \o t) /\ (s \o t)[Len(s) + i] = t[i]
    BY <1>1, <2>1 DEF Queues
  <2> QED
    BY <2>1, <2>2 DEF LossComes
<1> QED
  BY <1>1, <1>2, <1>3

LEMMA Taken ==
  ASSUME NEW s \in Queues, s # << >>
  PROVE  /\ Tail(s) \in Queues
         /\ LossComes(s) /\ Head(s).kind # "DISCONNECTED" => LossComes(Tail(s))
<1>1. Tail(s) \in Queues /\ Len(Tail(s)) = Len(s) - 1
  BY DEF Queues
<1>2. ASSUME LossComes(s), Head(s).kind # "DISCONNECTED"
      PROVE  LossComes(Tail(s))
  <2>1. PICK i \in 1 .. Len(s) : s[i].kind = "DISCONNECTED"
    BY <1>2 DEF LossComes
  <2>2. i # 1
    BY <1>2, <2>1 DEF Queues
  <2>3. i - 1 \in 1 .. Len(Tail(s)) /\ Tail(s)[i - 1] = s[i]
    BY <1>1, <2>1, <2>2 DEF Queues
  <2> QED
    BY <2>1, <2>3 DEF LossComes
<1> QED
  BY <1>1, <1>2

LEMMA Fenced ==
  ASSUME NEW s \in Queues
  PROVE  FencedOff(s) \in Queues
<1>1. ASSUME NEW i \in 1 .. Len(s)
      PROVE  [s[i] EXCEPT !.old = @ \/ ~StopWaits] \in DriverEvents
  <2>1. s[i] \in DriverEvents
    BY DEF Queues
  <2>2. (s[i].old \/ ~StopWaits) \in BOOLEAN
    OBVIOUS
  <2> QED
    BY <2>1, <2>2 DEF DriverEvents
<1>2. Len(s) \in Nat
  BY DEF Queues
<1> QED
  BY <1>1, <1>2 DEF FencedOff, Queues

-----------------------------------------------------------------------------
(* The driver.                                                             *)
LEMMA DisconnectedIs ==
  ASSUME NEW d \in Drivers
  PROVE  /\ Disconnected(d) \in Drivers /\ Disconnected(d).link = "down"
         /\ Disconnected(d).up = d.up /\ Disconnected(d).profile = d.profile
         /\ DisconnectPosts(d) \in Queues
         /\ d.link # "down" => LossComes(DisconnectPosts(d))
BY EventIs DEF Disconnected, DisconnectPosts, Drivers

LEMMA InModeIs ==
  ASSUME NEW d \in Drivers, NEW wanted \in BOOLEAN
  PROVE  /\ InMode(d, wanted) \in Drivers /\ InMode(d, wanted).up = wanted
         /\ d.up = wanted => InMode(d, wanted) = d
         /\ d.up # wanted => InMode(d, wanted).link = "down"
         /\ InMode(d, wanted).profile = d.profile
         /\ ModePosts(d, wanted) \in Queues
<1>1. d.up \in BOOLEAN
  BY DEF Drivers
<1>2. CASE d.up = wanted
  BY <1>1, <1>2, EventIs DEF InMode, ModePosts
<1>3. CASE d.up # wanted
  <2>1. /\ InMode(d, wanted) = [Disconnected(d) EXCEPT !.up = wanted]
        /\ Disconnected(d) \in Drivers
    BY <1>3, DisconnectedIs DEF InMode
  <2>2. /\ InMode(d, wanted) \in Drivers /\ InMode(d, wanted).up = wanted
        /\ InMode(d, wanted).link = "down"
        /\ InMode(d, wanted).profile = d.profile
    BY <2>1, DisconnectedIs DEF Drivers
  <2>3. ModePosts(d, wanted) \in Queues
    BY <1>1, <1>3, EventIs, DisconnectedIs, Appended DEF ModePosts
  <2> QED
    BY <1>3, <2>2, <2>3
<1> QED
  BY <1>2, <1>3

-----------------------------------------------------------------------------
(* The coordinator's calls keep the invariant.                             *)
LEMMA StoppedPolicy == RetryStopped \in RuntimePolicy /\ ~RetryStopped.online
                        /\ ~RetryStopped.paused /\ ~RetryStopped.announced
BY DEF RetryStopped, RuntimePolicy

LEMMA OnlinePolicy == Online \in RuntimePolicy /\ Online.online /\ ~Online.paused
BY DEF Online, RuntimePolicy

(* After a step that leaves no address the invariant asks little.          *)
LEMMA NoAddress ==
  ASSUME sta' \in Flags, retry' \in RuntimePolicy, ap' \in BOOLEAN, driver' \in Drivers,
         loop' \in Queues, ~sta'.has_ip, retry'.online => retry'.paused,
         sta'.started => driver'.up, driver'.link # "down" => driver'.up
  PROVE  IInv'
<1>1. RuntimeTypeOK'
  BY DEF RuntimeTypeOK, Flags, RuntimePolicy, Drivers, Queues
<1> QED
  BY <1>1 DEF IInv, AddressHasStation, OnlineHasAddress, InterfaceIsUp, AddressIsLive

LEMMA StartStaKeeps ==
  ASSUME IInv, NEW profile \in Profile, StartSta(profile)
  PROVE  IInv'
<1>1. /\ sta \in Flags /\ driver \in Drivers /\ loop \in Queues /\ ap \in BOOLEAN
  BY TypeIs DEF IInv
<1>2. /\ sta' = [sta EXCEPT !.started = TRUE, !.has_ip = FALSE, !.expected = profile]
      /\ retry' = RetryStopped
      /\ driver' = [InMode(driver, TRUE) EXCEPT !.profile = profile]
      /\ loop' = loop \o ModePosts(driver, TRUE)
      /\ ap' = ap
  BY DEF StartSta
<1>3. sta' \in Flags /\ ~sta'.has_ip
  BY <1>1, <1>2 DEF Flags
<1>4. driver' \in Drivers /\ driver'.up
  <2> DEFINE on == InMode(driver, TRUE)
  <2>1. on \in Drivers /\ on.up
    BY <1>1, InModeIs
  <2>2. driver' = [on EXCEPT !.profile = profile]
    BY <1>2
  <2> HIDE DEF on
  <2> QED
    BY <2>1, <2>2 DEF Drivers
<1>5. loop' \in Queues
  BY <1>1, <1>2, InModeIs, Appended
<1>6. retry' \in RuntimePolicy /\ ~retry'.online /\ ap' \in BOOLEAN
  BY <1>1, <1>2, StoppedPolicy
<1> QED
  BY <1>3, <1>4, <1>5, <1>6, NoAddress

LEMMA StartStaFailsKeeps ==
  ASSUME IInv, NEW profile \in Profile, StartStaFails(profile)
  PROVE  IInv'
<1>1. /\ sta \in Flags /\ driver \in Drivers /\ loop \in Queues /\ ap \in BOOLEAN
  BY TypeIs DEF IInv
<1>2. PICK applied \in BOOLEAN :
        LET d == InMode(driver, driver.up \/ applied)
        IN  /\ driver' = InMode(d, FALSE)
            /\ loop' = loop \o ModePosts(driver, d.up) \o ModePosts(d, FALSE)
  BY DEF StartStaFails
<1> DEFINE d == InMode(driver, driver.up \/ applied)
<1>3. /\ ~sta.started
      /\ sta' = [sta EXCEPT !.has_ip = FALSE, !.expected = profile]
      /\ retry' = RetryStopped /\ ap' = ap
  BY DEF StartStaFails
<1>4. sta' \in Flags /\ ~sta'.has_ip /\ ~sta'.started
  BY <1>1, <1>3 DEF Flags
<1>5. (driver.up \/ applied) \in BOOLEAN
  OBVIOUS
<1>6. d \in Drivers /\ d.up \in BOOLEAN
  BY <1>1, <1>5, InModeIs DEF Drivers
<1>7. /\ driver' \in Drivers /\ ~driver'.up
      /\ d.up => driver'.link = "down"
      /\ ~d.up => driver' = d
      /\ ~d.up => d = driver
  <2>1. driver' = InMode(d, FALSE) /\ driver.up \in BOOLEAN
    BY <1>1, <1>2 DEF Drivers
  <2>2. d.up = (driver.up \/ applied)
    BY <1>1, <1>5, InModeIs
  <2>3. ~d.up => d = driver
    <3>1. ASSUME ~d.up PROVE driver.up = (driver.up \/ applied)
      BY <2>1, <2>2, <3>1
    <3> QED
      BY <1>1, <1>5, <3>1, InModeIs
  <2> HIDE DEF d
  <2> QED
    BY <1>6, <2>1, <2>3, InModeIs
<1>8. ~d.up => driver.link = "down"
  BY <1>7 DEF IInv, InterfaceIsUp
<1>9. loop' \in Queues
  <2>1. ModePosts(driver, d.up) \in Queues /\ ModePosts(d, FALSE) \in Queues
    BY <1>1, <1>6, InModeIs
  <2> QED
    BY <1>1, <1>2, <2>1, Appended
<1>10. driver'.link = "down"
  BY <1>7, <1>8, <1>6
<1>11. retry' \in RuntimePolicy /\ ~retry'.online /\ ap' \in BOOLEAN
  BY <1>1, <1>3, StoppedPolicy
<1> QED
  BY <1>4, <1>7, <1>9, <1>10, <1>11, NoAddress

LEMMA StopStaKeeps ==
  ASSUME IInv, StopSta
  PROVE  IInv'
<1>1. /\ sta \in Flags /\ driver \in Drivers /\ loop \in Queues /\ ap \in BOOLEAN
  BY TypeIs DEF IInv
<1>2. /\ sta' \in Flags /\ ~sta'.has_ip /\ ~sta'.started
  BY <1>1 DEF StopSta, StationOff, Flags
<1>3. retry' \in RuntimePolicy /\ ~retry'.online /\ ap' \in BOOLEAN
  BY <1>1, StoppedPolicy DEF StopSta
<1>4. /\ driver' \in Drivers /\ loop' \in Queues
      /\ driver'.link # "down" => driver'.up
  <2> DEFINE d == Disconnected(driver)
  <2>1. /\ d \in Drivers /\ d.link = "down" /\ DisconnectPosts(driver) \in Queues
        /\ InMode(d, FALSE) \in Drivers /\ ModePosts(d, FALSE) \in Queues
        /\ loop \o DisconnectPosts(driver) \in Queues
    BY <1>1, DisconnectedIs, InModeIs, Appended
  <2>2. InMode(d, FALSE).link = "down"
    <3>1. d.up \in BOOLEAN
      BY <2>1 DEF Drivers
    <3> HIDE DEF d
    <3> QED
      BY <2>1, <3>1, InModeIs
  <2>3. CASE ~sta.started
    BY <1>1, <2>3 DEF StopSta, IInv, InterfaceIsUp
  <2>4. ASSUME driver' = InMode(d, FALSE),
               loop' = FencedOff(loop \o DisconnectPosts(driver)) \o ModePosts(d, FALSE)
        PROVE  /\ driver' \in Drivers /\ loop' \in Queues
               /\ driver'.link # "down" => driver'.up
    BY <2>1, <2>2, <2>4, Fenced, Appended
  <2>5. ASSUME Disconnects(d, << >>)
        PROVE  /\ driver' \in Drivers /\ loop' \in Queues
               /\ driver'.link # "down" => driver'.up
    BY <2>1, <2>5, EventIs, Appended DEF Disconnects
  <2> QED
    BY <2>3, <2>4, <2>5 DEF StopSta
<1> QED
  BY <1>2, <1>3, <1>4, NoAddress

-----------------------------------------------------------------------------
(* Steps that leave the station's flags alone.                             *)
LEMMA LiveHasLink == LiveIp => driver.link = "joined"
BY DEF LiveIp

LEMMA SameStation ==
  ASSUME IInv, NEW posts \in Queues, sta' = sta,
         retry' \in RuntimePolicy, retry'.online = retry.online,
         retry.paused => retry'.paused,
         ap' \in BOOLEAN, driver' \in Drivers, loop' = loop \o posts,
         sta.started => driver'.up, driver'.link # "down" => driver'.up,
         LiveIp => LiveIp' \/ LossComes(posts)
  PROVE  IInv'
<1>1. sta \in Flags /\ loop \in Queues
  BY TypeIs DEF IInv
<1>2. loop' \in Queues /\ (LossComes(loop) \/ LossComes(posts) => LossComes(loop'))
  BY <1>1, Appended
<1>3. RuntimeTypeOK'
  BY <1>1, <1>2 DEF RuntimeTypeOK, Flags, RuntimePolicy, Drivers, Queues
<1>4. AddressIsLive'
  BY <1>2, LiveIs DEF IInv, AddressIsLive, LossComes
<1> QED
  BY <1>3, <1>4 DEF IInv, AddressHasStation, OnlineHasAddress, InterfaceIsUp

LEMMA PauseRetriesKeeps ==
  ASSUME IInv, PauseRetries
  PROVE  IInv'
<1>1. /\ retry \in RuntimePolicy /\ driver \in Drivers /\ loop \in Queues /\ ap \in BOOLEAN
  BY TypeIs DEF IInv
<1>2. retry' \in RuntimePolicy /\ retry'.online = retry.online /\ retry'.paused
  BY <1>1 DEF PauseRetries, RuntimePolicy
<1>3. sta' = sta /\ ap' = ap
  BY DEF PauseRetries
<1>4. CASE retry.in_flight
  <2>1. /\ driver' = Disconnected(driver)
        /\ loop' = loop \o DisconnectPosts(driver) \o << >>
    BY <1>4 DEF PauseRetries, Disconnects
  <2>2. DisconnectPosts(driver) \in Queues
    BY <1>1, DisconnectedIs
  <2>3. loop' = loop \o DisconnectPosts(driver)
    BY <1>1, <2>1, <2>2 DEF Queues
  <2>4. LiveIp => LossComes(DisconnectPosts(driver))
    BY <1>1, LiveHasLink, DisconnectedIs
  <2>5. /\ driver' \in Drivers /\ driver'.up = driver.up /\ driver'.link = "down"
    BY <1>1, <2>1, DisconnectedIs
  <2>6. sta.started => driver'.up
    BY <2>5 DEF IInv, InterfaceIsUp
  <2> QED
    BY <1>1, <1>2, <1>3, <2>2, <2>3, <2>4, <2>5, <2>6, SameStation
<1>5. CASE ~retry.in_flight
  <2>1. driver' = driver /\ loop' = loop \o << >>
    BY <1>1, <1>5 DEF PauseRetries, Queues
  <2>2. LiveIp => LiveIp'
    BY <1>3, <2>1 DEF LiveIp
  <2>3. /\ sta.started => driver'.up
        /\ driver'.link # "down" => driver'.up
    BY <2>1 DEF IInv, InterfaceIsUp
  <2> QED
    BY <1>1, <1>2, <1>3, <2>1, <2>2, <2>3, EventIs, SameStation
<1> QED
  BY <1>4, <1>5

(* The driver changes, and nothing else but its events.                    *)
LEMMA DriverKeeps ==
  ASSUME IInv, NEW posts \in Queues, UNCHANGED << sta, retry >>,
         ap' \in BOOLEAN, driver' \in Drivers, loop' = loop \o posts,
         sta.started => driver'.up, driver'.link # "down" => driver'.up,
         LiveIp => LiveIp' \/ LossComes(posts)
  PROVE  IInv'
<1>1. retry \in RuntimePolicy
  BY TypeIs DEF IInv
<1> QED
  BY <1>1, SameStation

LEMMA ModeApplied ==
  ASSUME IInv, UNCHANGED << sta, retry >>, ap' \in BOOLEAN,
         driver' = InMode(driver, sta.started),
         loop' = loop \o ModePosts(driver, sta.started)
  PROVE  IInv'
<1>1. sta.started \in BOOLEAN /\ driver \in Drivers /\ driver.up \in BOOLEAN
  BY TypeIs DEF IInv, Flags, Drivers
<1>2. /\ driver' \in Drivers /\ ModePosts(driver, sta.started) \in Queues
      /\ driver'.up = sta.started
      /\ driver.up = sta.started => driver' = driver
      /\ driver.up # sta.started => driver'.link = "down"
  BY <1>1, InModeIs
<1>3. driver'.link # "down" => driver'.up
  BY <1>2 DEF IInv, InterfaceIsUp
<1>4. LiveIp => LiveIp' \/ LossComes(ModePosts(driver, sta.started))
  <2>1. CASE driver.up = sta.started
    BY <1>2, <2>1 DEF LiveIp
  <2>2. ASSUME driver.up # sta.started, LiveIp
        PROVE  LossComes(ModePosts(driver, sta.started))
    <3>1. driver.link # "down" /\ driver.up /\ ~sta.started
      BY <1>1, <2>2, LiveHasLink DEF IInv, InterfaceIsUp
    <3>2. ModePosts(driver, sta.started) = DisconnectPosts(driver) \o Event("STA_STOP")
      BY <1>1, <3>1 DEF ModePosts
    <3> QED
      BY <1>1, <3>1, <3>2, DisconnectedIs, EventIs, Appended
  <2> QED
    BY <2>1, <2>2
<1> QED
  BY <1>2, <1>3, <1>4, DriverKeeps

LEMMA ScanKeeps ==
  ASSUME IInv, Scan
  PROVE  IInv'
<1> DEFINE on == InMode(driver, TRUE)
           shown == ModePosts(driver, TRUE)
           gone == ModePosts(on, sta.started)
<1>1. /\ sta.started \in BOOLEAN /\ driver \in Drivers /\ loop \in Queues
      /\ ap \in BOOLEAN
  BY TypeIs DEF IInv, Flags
<1>2. /\ ~driver.up /\ UNCHANGED << sta, retry >> /\ ap' = ap
      /\ \/ driver' = InMode(on, sta.started) /\ loop' = loop \o shown \o gone
         \/ driver' = on /\ loop' = loop \o shown
  BY DEF Scan
<1>3. ~sta.started /\ ~LiveIp
  BY <1>2, LiveHasLink DEF IInv, InterfaceIsUp
<1>4. on \in Drivers /\ on.up /\ on.link = "down" /\ shown \in Queues
  BY <1>1, <1>2, InModeIs
<1>5. /\ gone \in Queues /\ InMode(on, sta.started) \in Drivers
      /\ InMode(on, sta.started).link = "down"
  <2> HIDE DEF on
  <2> QED
    BY <1>1, <1>3, <1>4, InModeIs
<1>6. loop \o shown \o gone = loop \o (shown \o gone) /\ shown \o gone \in Queues
  <2> HIDE DEF shown, gone
  <2> QED
    BY <1>1, <1>4, <1>5 DEF Queues
<1> HIDE DEF on, shown, gone
<1>7. CASE driver' = InMode(on, sta.started) /\ loop' = loop \o shown \o gone
  BY <1>1, <1>2, <1>3, <1>5, <1>6, <1>7, DriverKeeps
<1>8. CASE driver' = on /\ loop' = loop \o shown
  BY <1>1, <1>2, <1>3, <1>4, <1>8, DriverKeeps
<1> QED
  BY <1>2, <1>7, <1>8

-----------------------------------------------------------------------------
(* The handler of the driver's events.                                     *)
LEMMA HandledLive ==
  ASSUME IInv, loop # << >>, loop' = Tail(loop), driver' = driver,
         sta'.expected = sta.expected,
         sta'.has_ip => LiveIp \/ (sta.has_ip /\ Head(loop).kind # "DISCONNECTED")
  PROVE  AddressIsLive'
<1>1. loop \in Queues
  BY TypeIs DEF IInv
<1>2. LiveIp => LiveIp'
  BY DEF LiveIp
<1>3. CASE sta'.has_ip /\ ~LiveIp
  <2>1. LossComes(loop)
    BY <1>3, LiveIs DEF IInv
  <2>2. LossComes(loop')
    BY <1>1, <1>3, <2>1, Taken
  <2> QED
    BY <2>2 DEF AddressIsLive, LossComes
<1> QED
  BY <1>2, <1>3 DEF AddressIsLive

LEMMA HandledTyped ==
  ASSUME IInv, NEW kind, Handles(kind), sta' \in Flags, retry' \in RuntimePolicy
  PROVE  /\ RuntimeTypeOK' /\ driver' = driver /\ loop # << >> /\ loop' = Tail(loop)
         /\ Head(loop).kind = kind
<1>1. driver \in Drivers /\ loop \in Queues /\ ap \in BOOLEAN
  BY TypeIs DEF IInv
<1>2. /\ driver' = driver /\ ap' = ap /\ loop # << >> /\ loop' = Tail(loop)
      /\ Head(loop).kind = kind
  BY DEF Handles
<1>3. loop' \in Queues
  BY <1>1, <1>2, Taken
<1> QED
  BY <1>1, <1>2, <1>3 DEF RuntimeTypeOK, Flags, RuntimePolicy, Drivers, Queues

LEMMA OnStaStartKeeps ==
  ASSUME IInv, OnStaStart \/ OnStaStop
  PROVE  IInv'
<1>1. sta \in Flags /\ retry \in RuntimePolicy
  BY TypeIs DEF IInv
<1>2. PICK kind \in {"STA_START", "STA_STOP"} : Handles(kind)
  BY DEF OnStaStart, OnStaStop
<1>3. /\ sta' \in Flags /\ sta'.has_ip = sta.has_ip /\ sta'.started = sta.started
      /\ sta'.expected = sta.expected /\ retry' = retry
      /\ ~sta.stop_pending => ~sta'.stop_pending
  BY <1>1 DEF OnStaStart, OnStaStop, Flags
<1>4. /\ RuntimeTypeOK' /\ driver' = driver /\ loop # << >> /\ loop' = Tail(loop)
      /\ Head(loop).kind # "DISCONNECTED"
  BY <1>1, <1>2, <1>3, HandledTyped
<1>5. AddressIsLive'
  BY <1>3, <1>4, HandledLive
<1> QED
  BY <1>3, <1>4, <1>5 DEF IInv, AddressHasStation, OnlineHasAddress, InterfaceIsUp

LEMMA FailedIs ==
  ASSUME NEW r \in RuntimePolicy
  PROVE  /\ Failed(r) \in RuntimePolicy /\ Failed(r).paused = r.paused
         /\ Failed(r).online => r.paused
         /\ r.paused => Failed(r) = r
         /\ ~r.paused /\ r.online => Failed(r) = RetryStopped
         /\ ~r.paused /\ ~r.online => Failed(r).announced = r.announced
BY StoppedPolicy DEF Failed, RuntimePolicy

LEMMA OnDisconnectedKeeps ==
  ASSUME IInv, OnDisconnected
  PROVE  IInv'
<1>1. sta \in Flags /\ retry \in RuntimePolicy /\ Handles("DISCONNECTED")
  BY TypeIs DEF IInv, OnDisconnected
<1> DEFINE counts == /\ sta.started /\ ~sta.stop_pending /\ ~LiveIp
                     /\ retry.in_flight \/ retry.online
<1>2. CASE counts
  <2>1. sta' = [sta EXCEPT !.has_ip = FALSE] /\ retry' = Failed(retry)
    BY <1>2 DEF OnDisconnected
  <2>2. /\ sta' \in Flags /\ ~sta'.has_ip /\ sta'.expected = sta.expected
        /\ sta'.started = sta.started
    BY <1>1, <2>1 DEF Flags
  <2>3. retry' \in RuntimePolicy /\ (retry'.online => retry'.paused)
    BY <1>1, <2>1, FailedIs
  <2>4. /\ RuntimeTypeOK' /\ driver' = driver /\ loop # << >> /\ loop' = Tail(loop)
    BY <1>1, <2>2, <2>3, HandledTyped
  <2>5. AddressIsLive'
    BY <2>2 DEF AddressIsLive
  <2> QED
    BY <2>2, <2>3, <2>4, <2>5
    DEF IInv, AddressHasStation, OnlineHasAddress, InterfaceIsUp
<1>3. CASE ~counts
  <2>1. sta' = sta /\ retry' = retry
    BY <1>3 DEF OnDisconnected
  <2>2. /\ RuntimeTypeOK' /\ driver' = driver /\ loop # << >> /\ loop' = Tail(loop)
    BY <1>1, <2>1, HandledTyped
  <2>3. sta.has_ip => LiveIp
    BY <1>3 DEF IInv, AddressHasStation
  <2>4. AddressIsLive'
    BY <2>1, <2>2, <2>3, HandledLive
  <2> QED
    BY <2>1, <2>2, <2>4 DEF IInv, AddressHasStation, OnlineHasAddress, InterfaceIsUp
<1> QED
  BY <1>2, <1>3

LEMMA OnGotIpKeeps ==
  ASSUME IInv, OnGotIp
  PROVE  IInv'
<1>1. sta \in Flags /\ retry \in RuntimePolicy /\ Handles("GOT_IP")
  BY TypeIs DEF IInv, OnGotIp
<1>2. CASE GotIpCounts /\ LiveIp
  <2>1. sta' = [sta EXCEPT !.has_ip = TRUE] /\ retry' = Online
    BY <1>2 DEF OnGotIp
  <2>2. /\ sta' \in Flags /\ sta'.expected = sta.expected
        /\ sta'.started = sta.started /\ sta'.stop_pending = sta.stop_pending
        /\ sta'.has_ip
    BY <1>1, <2>1 DEF Flags
  <2>3. /\ RuntimeTypeOK' /\ driver' = driver /\ loop # << >> /\ loop' = Tail(loop)
    BY <1>1, <2>1, <2>2, OnlinePolicy, HandledTyped
  <2>4. AddressIsLive'
    BY <1>2, <2>2, <2>3, HandledLive
  <2> QED
    BY <1>2, <2>1, <2>2, <2>3, <2>4, OnlinePolicy
    DEF IInv, AddressHasStation, OnlineHasAddress, InterfaceIsUp, GotIpCounts
<1>3. CASE ~(GotIpCounts /\ LiveIp)
  <2>1. sta' = sta /\ retry' = retry
    BY <1>3 DEF OnGotIp
  <2>2. /\ RuntimeTypeOK' /\ driver' = driver /\ loop # << >> /\ loop' = Tail(loop)
        /\ Head(loop).kind = "GOT_IP"
    BY <1>1, <2>1, HandledTyped
  <2>3. AddressIsLive'
    BY <2>1, <2>2, HandledLive
  <2> QED
    BY <2>1, <2>2, <2>3 DEF IInv, AddressHasStation, OnlineHasAddress, InterfaceIsUp
<1> QED
  BY <1>2, <1>3

-----------------------------------------------------------------------------
(* The polling task.                                                       *)
LEMMA AnnouncedIs ==
  ASSUME NEW r \in RuntimePolicy, NEW announce \in BOOLEAN
  PROVE  /\ Announced(r, announce) \in RuntimePolicy
         /\ Announced(r, announce).online = r.online
         /\ Announced(r, announce).paused = r.paused
         /\ Announced(r, announce).announced <=> (r.announced \/ announce)
<1>1. (r.announced \/ announce) \in BOOLEAN
  OBVIOUS
<1> QED
  BY <1>1 DEF Announced, RuntimePolicy

LEMMA PollAnnouncesKeeps ==
  ASSUME IInv, PollAnnounces
  PROVE  IInv'
<1>1. /\ retry \in RuntimePolicy /\ driver \in Drivers /\ loop \in Queues /\ ap \in BOOLEAN
  BY TypeIs DEF IInv
<1>2. /\ sta' = sta /\ ap' = ap /\ driver' = driver /\ loop' = loop \o << >>
      /\ retry' = Announced(retry, TRUE)
  BY <1>1 DEF PollAnnounces, Queues
<1>3. /\ retry' \in RuntimePolicy /\ retry'.online = retry.online
      /\ retry'.paused = retry.paused
  BY <1>1, <1>2, AnnouncedIs
<1>4. LiveIp => LiveIp'
  BY <1>2 DEF LiveIp
<1>5. /\ sta.started => driver'.up
      /\ driver'.link # "down" => driver'.up
  BY <1>2 DEF IInv, InterfaceIsUp
<1> QED
  BY <1>1, <1>2, <1>3, <1>4, <1>5, EventIs, SameStation

LEMMA PollAbortsKeeps ==
  ASSUME IInv, NEW announce \in BOOLEAN, PollAborts(announce)
  PROVE  IInv'
<1>1. /\ sta \in Flags /\ retry \in RuntimePolicy /\ driver \in Drivers /\ loop \in Queues
      /\ ap \in BOOLEAN
  BY TypeIs DEF IInv
<1>2. ap' = ap /\ sta.started /\ ~sta.stop_pending /\ ~retry.paused /\ ~retry.online
  BY DEF PollAborts, Polls
<1>3. CASE LiveIp
  <2>1. /\ sta' = [sta EXCEPT !.has_ip = TRUE] /\ retry' = Online
        /\ driver' = driver /\ loop' = loop
    BY <1>3 DEF PollAborts
  <2>2. /\ sta' \in Flags /\ sta'.expected = sta.expected
        /\ sta'.started = sta.started /\ sta'.stop_pending = sta.stop_pending
        /\ sta'.has_ip
    BY <1>1, <2>1 DEF Flags
  <2>3. RuntimeTypeOK'
    BY <1>1, <1>2, <2>1, <2>2, OnlinePolicy
    DEF RuntimeTypeOK, Flags, RuntimePolicy, Drivers, Queues
  <2>4. LiveIp'
    BY <1>3, <2>1, <2>2 DEF LiveIp
  <2> QED
    BY <1>2, <2>1, <2>2, <2>3, <2>4, OnlinePolicy
    DEF IInv, AddressHasStation, OnlineHasAddress, InterfaceIsUp, AddressIsLive
<1>4. CASE ~LiveIp
  <2>1. /\ retry' = Announced(Failed(retry), announce) /\ sta' = sta
        /\ driver' = Disconnected(driver)
        /\ loop' = loop \o DisconnectPosts(driver) \o << >>
    BY <1>4 DEF PollAborts, Disconnects
  <2>2. DisconnectPosts(driver) \in Queues
    BY <1>1, DisconnectedIs
  <2>3. loop' = loop \o DisconnectPosts(driver)
    BY <1>1, <2>1, <2>2 DEF Queues
  <2>4. Failed(retry) \in RuntimePolicy /\ ~Failed(retry).online
    BY <1>1, <1>2, FailedIs
  <2>5. retry' \in RuntimePolicy /\ ~retry'.online
    BY <2>1, <2>4, AnnouncedIs
  <2>6. driver' \in Drivers /\ driver'.up = driver.up /\ driver'.link = "down"
    BY <1>1, <2>1, DisconnectedIs
  <2>7. driver.up
    BY <1>2 DEF IInv, InterfaceIsUp
  <2>8. retry'.online = retry.online
    BY <1>1, <1>2, <2>5 DEF RuntimePolicy
  <2> QED
    BY <1>1, <1>2, <1>4, <2>1, <2>2, <2>3, <2>5, <2>6, <2>7, <2>8, SameStation
<1> QED
  BY <1>3, <1>4

LEMMA PollConnectsKeeps ==
  ASSUME IInv, NEW announce \in BOOLEAN, PollConnects(announce)
  PROVE  IInv'
<1>1. /\ retry \in RuntimePolicy /\ driver \in Drivers /\ loop \in Queues /\ ap \in BOOLEAN
  BY TypeIs DEF IInv
<1>2. /\ sta' = sta /\ ap' = ap /\ loop' = loop \o << >>
      /\ sta.started /\ ~retry.paused /\ ~retry.online
      /\ \/ driver.link = "down" /\ driver' = [driver EXCEPT !.link = "trying"]
         \/ driver' = driver
      /\ \/ retry' = Announced([retry EXCEPT !.in_flight = TRUE], announce)
         \/ retry' = Announced(retry, announce)
  BY <1>1 DEF PollConnects, Polls, Queues
<1>3. /\ retry' \in RuntimePolicy /\ retry'.online = retry.online
      /\ retry'.paused = retry.paused
  <2> DEFINE r == [retry EXCEPT !.in_flight = TRUE]
  <2>1. r \in RuntimePolicy /\ r.online = retry.online /\ r.paused = retry.paused
    BY <1>1 DEF RuntimePolicy
  <2>2. retry' = Announced(r, announce) \/ retry' = Announced(retry, announce)
    BY <1>2
  <2> HIDE DEF r
  <2> QED
    BY <1>1, <2>1, <2>2, AnnouncedIs
<1>4. /\ driver' \in Drivers /\ driver'.up = driver.up
      /\ driver.link # "down" => driver' = driver
  BY <1>1, <1>2 DEF Drivers
<1>5. driver.up
  BY <1>2 DEF IInv, InterfaceIsUp
<1>6. LiveIp => LiveIp'
  BY <1>2, <1>4, LiveHasLink DEF LiveIp
<1> QED
  BY <1>1, <1>2, <1>3, <1>4, <1>5, <1>6, EventIs, SameStation

-----------------------------------------------------------------------------
LEMMA DriverStepKeeps ==
  ASSUME IInv, Joins \/ GetsAddress \/ LosesLink
  PROVE  IInv'
<1>1. driver \in Drivers /\ loop \in Queues /\ ap \in BOOLEAN
  BY TypeIs DEF IInv
<1>2. UNCHANGED << sta, retry >> /\ ap' = ap /\ driver.link # "down"
  BY DEF Joins, GetsAddress, LosesLink, DriverStep
<1>3. driver.up
  BY <1>2 DEF IInv, InterfaceIsUp
<1>4. CASE Joins
  <2>1. /\ driver.link = "trying" /\ driver' = [driver EXCEPT !.link = "joined"]
        /\ loop' = loop \o << >>
    BY <1>4 DEF Joins, DriverStep
  <2>2. driver' \in Drivers /\ driver'.up = driver.up /\ ~LiveIp
    BY <1>1, <2>1, LiveHasLink DEF Drivers
  <2> QED
    BY <1>1, <1>2, <1>3, <2>1, <2>2, EventIs, DriverKeeps
<1>5. CASE GetsAddress
  <2>1. /\ ~driver.ip /\ driver' = [driver EXCEPT !.ip = TRUE]
        /\ loop' = loop \o Event("GOT_IP")
    BY <1>5 DEF GetsAddress, DriverStep
  <2>2. driver' \in Drivers /\ driver'.up = driver.up /\ ~LiveIp
    BY <1>1, <2>1 DEF Drivers, LiveIp
  <2> QED
    BY <1>1, <1>2, <1>3, <2>1, <2>2, EventIs, DriverKeeps
<1>6. CASE LosesLink
  <2>1. driver' = Disconnected(driver) /\ loop' = loop \o Event("DISCONNECTED")
    BY <1>6 DEF LosesLink, DriverStep
  <2>2. driver' \in Drivers /\ driver'.up = driver.up
    BY <1>1, <2>1, DisconnectedIs
  <2> QED
    BY <1>1, <1>2, <1>3, <2>1, <2>2, EventIs, DriverKeeps
<1> QED
  BY <1>4, <1>5, <1>6

-----------------------------------------------------------------------------
LEMMA InitInvariant == RuntimeInit => IInv
<1> SUFFICES ASSUME RuntimeInit PROVE IInv
  OBVIOUS
<1>1. retry = RetryStopped /\ retry \in RuntimePolicy /\ loop = << >> /\ loop \in Queues
  BY StoppedPolicy DEF RuntimeInit, Queues
<1>2. RuntimeTypeOK
  BY <1>1 DEF RuntimeInit, RuntimeTypeOK, RuntimePolicy, Queues
<1> QED
  BY <1>1, <1>2, StoppedPolicy
  DEF RuntimeInit, IInv, AddressHasStation, OnlineHasAddress, InterfaceIsUp,
      AddressIsLive

LEMMA SetApKeeps ==
  ASSUME IInv, \/ \E on \in BOOLEAN : SetAp(on)
               \/ StartApFails
  PROVE  IInv'
<1>1. ap \in BOOLEAN
  BY TypeIs DEF IInv
<1>2. /\ UNCHANGED << sta, retry >> /\ ap' \in BOOLEAN
      /\ driver' = InMode(driver, sta.started)
      /\ loop' = loop \o ModePosts(driver, sta.started)
  BY <1>1 DEF SetAp, StartApFails
<1> QED
  BY <1>2, ModeApplied

LEMMA StutterKeeps ==
  ASSUME IInv, UNCHANGED runtimeVars
  PROVE  IInv'
<1>1. UNCHANGED << sta, retry, ap, driver, loop >>
  BY DEF runtimeVars
<1> QED
  BY <1>1 DEF IInv, RuntimeTypeOK, AddressHasStation, OnlineHasAddress, InterfaceIsUp,
              AddressIsLive, LiveIp

LEMMA NextKeeps == IInv /\ [RuntimeNext]_runtimeVars => IInv'
<1> SUFFICES ASSUME IInv, [RuntimeNext]_runtimeVars PROVE IInv'
  OBVIOUS
<1>1. ASSUME NEW profile \in Profile, StartSta(profile) \/ StartStaFails(profile)
      PROVE  IInv'
  BY <1>1, StartStaKeeps, StartStaFailsKeeps
<1>2. CASE StopSta
  BY <1>2, StopStaKeeps
<1>3. CASE PauseRetries
  BY <1>3, PauseRetriesKeeps
<1>4. CASE (\E on \in BOOLEAN : SetAp(on)) \/ StartApFails
  BY <1>4, SetApKeeps
<1>5. CASE Scan
  BY <1>5, ScanKeeps
<1>6. CASE OnStaStart \/ OnStaStop
  BY <1>6, OnStaStartKeeps
<1>7. CASE OnDisconnected
  BY <1>7, OnDisconnectedKeeps
<1>8. CASE OnGotIp
  BY <1>8, OnGotIpKeeps
<1>9. CASE PollAnnounces
  BY <1>9, PollAnnouncesKeeps
<1>10. ASSUME NEW announce \in BOOLEAN, PollAborts(announce) \/ PollConnects(announce)
       PROVE  IInv'
  BY <1>10, PollAbortsKeeps, PollConnectsKeeps
<1>11. CASE Joins \/ GetsAddress \/ LosesLink
  BY <1>11, DriverStepKeeps
<1>12. CASE UNCHANGED runtimeVars
  BY <1>12, StutterKeeps
<1> QED
  BY <1>1, <1>2, <1>3, <1>4, <1>5, <1>6, <1>7, <1>8, <1>9, <1>10, <1>11, <1>12
  DEF RuntimeNext

LEMMA Invariant == RuntimeSpec => []IInv
BY InitInvariant, NextKeeps, PTL DEF RuntimeSpec

(* Every reachable state of the station is well typed: no event comes to   *)
(* the handler (wifi_event_handler, provisioning_runtime.c:375) that the   *)
(* driver does not post, whatever the number of events that wait.          *)
THEOREM TypeCorrect == RuntimeSpec => []RuntimeTypeOK
<1>1. IInv => RuntimeTypeOK
  BY DEF IInv
<1> QED
  BY Invariant, <1>1, PTL

(* No event of an earlier station brings up an address the driver does not *)
(* have (provisioning_runtime.c:407, 428): an address that is reported is  *)
(* there, or its loss is among the events that wait.                       *)
THEOREM AddressLive == RuntimeSpec => []AddressIsLive
<1>1. IInv => AddressIsLive
  BY DEF IInv
<1> QED
  BY Invariant, <1>1, PTL

-----------------------------------------------------------------------------
(* The refinement: the status is a record of four flags, and each step     *)
(* does to them what a step of StationPort does.                           *)
Due == sta.started /\ ~retry.paused /\ ~retry.online /\ retry.announced

PortStep == Port!Next \/ UNCHANGED Status

LEMMA DueIs == Due \in BOOLEAN
BY DEF Due

LEMMA StatusIs ==
  ASSUME IInv
  PROVE  /\ Status \in Port!Station
         /\ Status.started = sta.started /\ Status.has_ip = sta.has_ip
         /\ Status.retry_paused = retry.paused /\ Status.recovery_due = Due
<1>1. /\ sta.started \in BOOLEAN /\ sta.has_ip \in BOOLEAN
      /\ retry.paused \in BOOLEAN
  BY DEF IInv, RuntimeTypeOK
<1>2. Status = [started |-> sta.started, has_ip |-> sta.has_ip,
                retry_paused |-> retry.paused, recovery_due |-> Due]
  BY DEF Status, Due
<1> QED
  BY <1>1, <1>2, DueIs DEF Port!Station

LEMMA StatusIsNext ==
  ASSUME IInv'
  PROVE  /\ Status' \in Port!Station
         /\ Status'.started = sta'.started /\ Status'.has_ip = sta'.has_ip
         /\ Status'.retry_paused = retry'.paused /\ Status'.recovery_due = Due'
<1>1. /\ sta'.started \in BOOLEAN /\ sta'.has_ip \in BOOLEAN
      /\ retry'.paused \in BOOLEAN /\ Due' \in BOOLEAN
  BY DEF IInv, RuntimeTypeOK, Due
<1>2. Status' = [started |-> sta'.started, has_ip |-> sta'.has_ip,
                 retry_paused |-> retry'.paused, recovery_due |-> Due']
  BY DEF Status, Due
<1> QED
  BY <1>1, <1>2 DEF Port!Station

LEMMA StoppedStation ==
  /\ Port!Stopped \in Port!Station /\ Port!Started \in Port!Station
  /\ ~Port!Stopped.started /\ ~Port!Stopped.has_ip
  /\ ~Port!Stopped.retry_paused /\ ~Port!Stopped.recovery_due
  /\ Port!Started.started /\ ~Port!Started.has_ip
  /\ ~Port!Started.retry_paused /\ ~Port!Started.recovery_due
BY DEF Port!Stopped, Port!Started, Port!Station

(* The same flags, the same status.                                        *)
LEMMA SameStatus ==
  ASSUME sta'.started = sta.started, sta'.has_ip = sta.has_ip,
         retry'.paused = retry.paused, Due' = Due
  PROVE  PortStep
BY DEF PortStep, Status, Due

LEMMA GoesUp ==
  ASSUME IInv, IInv', sta.started, ~retry.paused, sta'.started, sta'.has_ip,
         retry' = Online
  PROVE  PortStep
<1>1. ~Due' /\ ~retry'.paused
  BY DEF Due, Online
<1>2. Port!IpUp
  BY <1>1, StatusIs, StatusIsNext DEF Port!IpUp, Port!Runs, Port!Station
<1> QED
  BY <1>2 DEF PortStep, Port!Next

LEMMA GoesDown ==
  ASSUME IInv, IInv', sta.started, sta.has_ip, sta'.started, ~sta'.has_ip,
         retry'.paused = retry.paused, Due' = Due
  PROVE  PortStep
<1>1. Port!IpDown
  BY StatusIs, StatusIsNext DEF Port!IpDown, Port!Station
<1> QED
  BY <1>1 DEF PortStep, Port!Next

LEMMA Outage ==
  ASSUME IInv, IInv', sta.started, ~retry.paused, ~sta.has_ip, ~Due,
         sta'.started, ~sta'.has_ip, ~retry'.paused, Due'
  PROVE  PortStep
<1>1. Port!OutageLong
  BY StatusIs, StatusIsNext DEF Port!OutageLong, Port!Runs, Port!Station
<1> QED
  BY <1>1 DEF PortStep, Port!Next

LEMMA Begins ==
  ASSUME IInv, IInv', ~sta.started, sta'.started, ~sta'.has_ip, retry' = RetryStopped
  PROVE  PortStep
<1>1. ~retry'.paused /\ ~Due'
  BY DEF RetryStopped, Due
<1>2. Status' = Port!Started
  <2>1. Status'.started = TRUE /\ Port!Started.started = TRUE
    BY StatusIsNext, StoppedStation DEF Port!Station
  <2> QED
    BY <1>1, <2>1, StatusIsNext, StoppedStation DEF Port!Station
<1>3. Port!Start
  BY <1>2, StatusIs DEF Port!Start
<1> QED
  BY <1>3 DEF PortStep, Port!Next

LEMMA Ends ==
  ASSUME IInv, IInv', ~sta'.started, ~sta'.has_ip, retry' = RetryStopped
  PROVE  PortStep
<1>1. ~retry'.paused /\ ~Due'
  BY DEF RetryStopped, Due
<1>2. Port!Stop
  BY <1>1, StatusIs, StatusIsNext, StoppedStation DEF Port!Stop, Port!Station
<1> QED
  BY <1>2 DEF PortStep, Port!Next

LEMMA Pauses ==
  ASSUME IInv, IInv', sta' = sta, retry'.paused
  PROVE  PortStep
<1>1. ~Due'
  BY DEF Due
<1>2. Port!Pause
  BY <1>1, StatusIs, StatusIsNext DEF Port!Pause, Port!Paused, Port!Station
<1> QED
  BY <1>2 DEF PortStep, Port!Next

LEMMA CallsImplement ==
  ASSUME IInv, IInv',
         \/ \E profile \in Profile : StartSta(profile) \/ StartStaFails(profile)
         \/ StopSta \/ PauseRetries
  PROVE  PortStep
<1>1. sta \in Flags /\ retry \in RuntimePolicy
  BY TypeIs DEF IInv
<1>2. ASSUME NEW profile \in Profile, StartSta(profile)
      PROVE  PortStep
  <2>1. /\ ~sta.started /\ retry' = RetryStopped
        /\ sta'.started = TRUE /\ sta'.has_ip = FALSE
    BY <1>1, <1>2 DEF StartSta, Flags
  <2> QED
    BY <2>1, Begins
<1>3. ASSUME NEW profile \in Profile, StartStaFails(profile)
      PROVE  PortStep
  <2>1. /\ retry' = RetryStopped
        /\ sta'.started = FALSE /\ sta'.has_ip = FALSE
    BY <1>1, <1>3 DEF StartStaFails, Flags
  <2> QED
    BY <2>1, Ends
<1>4. CASE StopSta
  <2>1. /\ retry' = RetryStopped
        /\ sta'.started = FALSE /\ sta'.has_ip = FALSE
    BY <1>1, <1>4 DEF StopSta, StationOff, Flags
  <2> QED
    BY <2>1, Ends
<1>5. CASE PauseRetries
  <2>1. sta' = sta /\ retry'.paused = TRUE
    BY <1>1, <1>5 DEF PauseRetries, RuntimePolicy
  <2> QED
    BY <2>1, Pauses
<1> QED
  BY <1>2, <1>3, <1>4, <1>5

LEMMA HandlerImplements ==
  ASSUME IInv, IInv', OnStaStart \/ OnStaStop \/ OnDisconnected \/ OnGotIp
  PROVE  PortStep
<1>1. sta \in Flags /\ retry \in RuntimePolicy
  BY TypeIs DEF IInv
<1>2. CASE OnStaStart \/ OnStaStop
  <2>1. /\ sta'.started = sta.started /\ sta'.has_ip = sta.has_ip /\ retry' = retry
    BY <1>1, <1>2 DEF OnStaStart, OnStaStop, Flags
  <2> QED
    BY <2>1, SameStatus DEF Due
<1>3. CASE sta' = sta /\ retry' = retry
  BY <1>3, SameStatus DEF Due
<1>4. CASE OnDisconnected /\ ~(sta' = sta /\ retry' = retry)
  <2>1. /\ sta.started
        /\ sta' = [sta EXCEPT !.has_ip = FALSE] /\ retry' = Failed(retry)
    BY <1>4 DEF OnDisconnected
  <2>2. /\ sta.started = TRUE /\ sta'.started = TRUE /\ sta'.has_ip = FALSE
    BY <1>1, <2>1 DEF Flags
  <2>3. retry'.paused = retry.paused /\ Due' = Due
    <3>1. CASE retry.paused
      BY <1>1, <2>1, <3>1, FailedIs DEF Due
    <3>2. CASE ~retry.paused /\ retry.online
      BY <1>1, <2>1, <3>2, FailedIs, StoppedPolicy DEF Due
    <3>3. CASE ~retry.paused /\ ~retry.online
      BY <1>1, <2>1, <2>2, <3>3, FailedIs DEF Due
    <3> QED
      BY <3>1, <3>2, <3>3
  <2>4. CASE sta.has_ip
    BY <2>2, <2>3, <2>4, GoesDown
  <2>5. CASE ~sta.has_ip
    <3>1. sta.has_ip = FALSE
      BY <1>1, <2>5 DEF Flags
    <3> QED
      BY <2>2, <2>3, <3>1, SameStatus
  <2> QED
    BY <2>4, <2>5
<1>5. CASE OnGotIp /\ ~(sta' = sta /\ retry' = retry)
  <2>1. /\ sta.started /\ ~retry.paused /\ retry' = Online
        /\ sta' = [sta EXCEPT !.has_ip = TRUE]
    BY <1>5 DEF OnGotIp, GotIpCounts
  <2>2. sta'.started = TRUE /\ sta'.has_ip = TRUE
    BY <1>1, <2>1 DEF Flags
  <2> QED
    BY <2>1, <2>2, GoesUp
<1> QED
  BY <1>2, <1>3, <1>4, <1>5

LEMMA PollImplements ==
  ASSUME IInv, IInv',
         \/ PollAnnounces
         \/ \E announce \in BOOLEAN : PollAborts(announce) \/ PollConnects(announce)
  PROVE  PortStep
<1>1. sta \in Flags /\ retry \in RuntimePolicy
  BY TypeIs DEF IInv
<1>2. sta.started /\ ~retry.paused /\ ~retry.online /\ ~sta.has_ip
  BY DEF PollAnnounces, PollAborts, PollConnects, Polls, IInv, AddressHasStation
<1>3. ASSUME sta' = sta, ~retry'.paused, retry' \in RuntimePolicy, ~retry'.online,
             retry.announced => retry'.announced
      PROVE  PortStep
  <2>1. /\ sta'.started = TRUE /\ sta'.has_ip = FALSE /\ sta.has_ip = FALSE
        /\ sta.started = TRUE
        /\ retry'.paused = FALSE /\ retry.paused = FALSE
    BY <1>1, <1>2, <1>3 DEF Flags, RuntimePolicy
  <2>2. (Due <=> retry.announced) /\ (Due' <=> retry'.announced)
    BY <1>2, <1>3, <2>1 DEF Due
  <2>3. CASE Due' = Due
    BY <2>1, <2>3, SameStatus
  <2>4. CASE Due' # Due
    <3>1. ~Due /\ Due'
      BY <1>3, <2>2, <2>4 DEF Due
    <3> QED
      BY <1>2, <2>1, <3>1, Outage
  <2> QED
    BY <2>3, <2>4
<1>4. CASE PollAnnounces
  <2>1. /\ sta' = sta /\ retry' = Announced(retry, TRUE)
    BY <1>4 DEF PollAnnounces
  <2> QED
    BY <1>1, <1>2, <1>3, <2>1, AnnouncedIs
<1>5. ASSUME NEW announce \in BOOLEAN, PollAborts(announce)
      PROVE  PortStep
  <2>1. CASE LiveIp
    <3>1. retry' = Online /\ sta' = [sta EXCEPT !.has_ip = TRUE]
      BY <1>5, <2>1 DEF PollAborts
    <3>2. sta'.started = TRUE /\ sta'.has_ip = TRUE
      BY <1>1, <1>2, <3>1 DEF Flags
    <3> QED
      BY <1>2, <3>1, <3>2, GoesUp
  <2>2. CASE ~LiveIp
    <3>1. retry' = Announced(Failed(retry), announce) /\ sta' = sta
      BY <1>5, <2>2 DEF PollAborts
    <3>2. /\ Failed(retry) \in RuntimePolicy /\ ~Failed(retry).paused
          /\ ~Failed(retry).online /\ Failed(retry).announced = retry.announced
      BY <1>1, <1>2, FailedIs
    <3>3. /\ retry' \in RuntimePolicy /\ ~retry'.paused /\ ~retry'.online
          /\ retry.announced => retry'.announced
      <4> DEFINE r == Failed(retry)
      <4>1. /\ r \in RuntimePolicy /\ ~r.paused /\ ~r.online
            /\ r.announced <=> retry.announced
            /\ retry' = Announced(r, announce)
        BY <3>1, <3>2
      <4> HIDE DEF r
      <4> QED
        BY <4>1, AnnouncedIs
    <3> QED
      BY <1>3, <3>1, <3>3
  <2> QED
    BY <2>1, <2>2
<1>6. ASSUME NEW announce \in BOOLEAN, PollConnects(announce)
      PROVE  PortStep
  <2> DEFINE r == [retry EXCEPT !.in_flight = TRUE]
  <2>1. /\ r \in RuntimePolicy /\ ~r.paused /\ ~r.online
        /\ r.announced <=> retry.announced
    BY <1>1, <1>2 DEF RuntimePolicy
  <2>2. /\ sta' = sta
        /\ retry' = Announced(r, announce) \/ retry' = Announced(retry, announce)
    BY <1>6 DEF PollConnects
  <2> HIDE DEF r
  <2>3. CASE retry' = Announced(r, announce)
    <3>1. /\ retry' \in RuntimePolicy /\ ~retry'.paused /\ ~retry'.online
          /\ retry.announced => retry'.announced
      BY <2>1, <2>3, AnnouncedIs
    <3> QED
      BY <1>3, <2>2, <3>1
  <2>4. CASE retry' = Announced(retry, announce)
    <3>1. /\ retry' \in RuntimePolicy /\ ~retry'.paused /\ ~retry'.online
          /\ retry.announced => retry'.announced
      BY <1>1, <1>2, <2>4, AnnouncedIs
    <3> QED
      BY <1>3, <2>2, <3>1
  <2> QED
    BY <2>2, <2>3, <2>4
<1> QED
  BY <1>4, <1>5, <1>6

LEMMA OthersImplement ==
  ASSUME UNCHANGED << sta, retry >>
  PROVE  PortStep
BY SameStatus DEF Due

LEMMA StepImplements == IInv /\ [RuntimeNext]_runtimeVars => [Port!Next]_Status
<1> SUFFICES ASSUME IInv, [RuntimeNext]_runtimeVars, IInv' PROVE PortStep
  BY NextKeeps DEF PortStep
<1>1. CASE UNCHANGED << sta, retry >>
  BY <1>1, OthersImplement
<1>2. CASE \/ \E profile \in Profile : StartSta(profile) \/ StartStaFails(profile)
           \/ StopSta \/ PauseRetries
  BY <1>2, CallsImplement
<1>3. CASE OnStaStart \/ OnStaStop \/ OnDisconnected \/ OnGotIp
  BY <1>3, HandlerImplements
<1>4. CASE \/ PollAnnounces
           \/ \E announce \in BOOLEAN : PollAborts(announce) \/ PollConnects(announce)
  BY <1>4, PollImplements
<1>5. ASSUME \/ \E on \in BOOLEAN : SetAp(on)
             \/ StartApFails \/ Scan \/ Joins \/ GetsAddress \/ LosesLink
             \/ UNCHANGED runtimeVars
      PROVE  UNCHANGED << sta, retry >>
  BY <1>5 DEF SetAp, StartApFails, Scan, Joins, GetsAddress, LosesLink, DriverStep,
              runtimeVars
<1> QED
  BY <1>1, <1>2, <1>3, <1>4, <1>5 DEF RuntimeNext

(* What the coordinator reads (provisioning_runtime_get_status,            *)
(* provisioning_runtime.c:1039) is a station as StationPort describes it,  *)
(* whatever the driver's late events are about.                            *)
THEOREM IsStationPort == RuntimeSpec => ImplementsStationPort
<1>1. RuntimeInit => Port!Init
  <2> SUFFICES ASSUME RuntimeInit PROVE Status = Port!Stopped
    BY DEF Port!Init
  <2>1. /\ ~sta.started /\ ~sta.has_ip /\ ~retry.paused /\ ~Due
    BY DEF RuntimeInit, RetryStopped, Due
  <2> QED
    BY <2>1, InitInvariant, StatusIs, StoppedStation DEF Port!Station
<1>2. RuntimeInit /\ [][RuntimeNext]_runtimeVars => []IInv
  BY InitInvariant, NextKeeps, PTL
<1> QED
  BY <1>1, <1>2, StepImplements, PTL DEF RuntimeSpec, ImplementsStationPort, Port!Spec

-----------------------------------------------------------------------------
(* The fence of a stop.  An event of a station that was stopped comes      *)
(* before the STA_STOP of that stop, which is the first in the loop, and   *)
(* the handler, for as long as it has not come, believes no event.         *)
OldIsFenced ==
  \A i \in 1 .. Len(loop) : loop[i].old =>
    /\ sta.stop_pending
    /\ \E j \in 1 .. Len(loop) : i < j /\ loop[j].kind = "STA_STOP"
    /\ \A j \in 1 .. i : loop[j].kind # "STA_STOP"

(* What is posted of the station that there is.                            *)
Fresh == {q \in Queues : \A i \in 1 .. Len(q) : ~q[i].old}

LEMMA FreshEvents ==
  /\ << >> \in Fresh
  /\ \A kind \in {"STA_START", "STA_STOP", "DISCONNECTED", "GOT_IP"} :
       Event(kind) \in Fresh
<1>1. << >> \in Fresh
  BY EventIs DEF Fresh
<1>2. ASSUME NEW kind \in {"STA_START", "STA_STOP", "DISCONNECTED", "GOT_IP"}
      PROVE  Event(kind) \in Fresh
  <2>1. Event(kind) \in Queues
    BY EventIs
  <2>2. \A i \in 1 .. Len(Event(kind)) : ~Event(kind)[i].old
    BY DEF Event
  <2> QED
    BY <2>1, <2>2 DEF Fresh
<1> QED
  BY <1>1, <1>2

LEMMA FreshAppended ==
  ASSUME NEW s \in Fresh, NEW t \in Fresh
  PROVE  s \o t \in Fresh
<1>1. s \in Queues /\ t \in Queues /\ s \o t \in Queues
  BY Appended DEF Fresh
<1>2. ASSUME NEW i \in 1 .. Len(s \o t) PROVE ~(s \o t)[i].old
  <2>1. (s \o t)[i] = IF i <= Len(s) THEN s[i] ELSE t[i - Len(s)]
    BY <1>1 DEF Queues
  <2>2. i <= Len(s) => i \in 1 .. Len(s)
    BY <1>1 DEF Queues
  <2>3. ~(i <= Len(s)) => i - Len(s) \in 1 .. Len(t)
    BY <1>1 DEF Queues
  <2> QED
    BY <2>1, <2>2, <2>3 DEF Fresh
<1> QED
  BY <1>1, <1>2 DEF Fresh

LEMMA Longer ==
  ASSUME NEW S, NEW s \in Seq(S), NEW t \in Seq(S)
  PROVE  Len(s \o t) \in Nat /\ Len(s \o t) >= Len(s)
OBVIOUS

LEMMA OneMore ==
  ASSUME NEW S, NEW s \in Seq(S), NEW e \in S
  PROVE  /\ s \o << e >> \in Seq(S) /\ Len(s \o << e >>) = Len(s) + 1
         /\ \A i \in 1 .. Len(s) : (s \o << e >>)[i] = s[i]
         /\ (s \o << e >>)[Len(s) + 1] = e
OBVIOUS

LEMMA PostsFresh ==
  ASSUME NEW d, NEW wanted
  PROVE  DisconnectPosts(d) \in Fresh /\ ModePosts(d, wanted) \in Fresh
<1>1. DisconnectPosts(d) \in Fresh
  BY FreshEvents DEF DisconnectPosts
<1>2. DisconnectPosts(d) \o Event("STA_STOP") \in Fresh
  BY <1>1, FreshEvents, FreshAppended
<1> QED
  BY <1>1, <1>2, FreshEvents DEF ModePosts

(* All but the handler, and a stop that takes the interface down, append.  *)
LEMMA StepsPost ==
  ASSUME loop \in Queues, RuntimeNext,
         ~(OnStaStart \/ OnStaStop \/ OnDisconnected \/ OnGotIp), ~StopSta
  PROVE  \E posts \in Fresh : loop' = loop \o posts
<1>0. loop \o << >> = loop
  BY DEF Queues
<1>1. ASSUME NEW s \in Fresh, NEW t \in Fresh
      PROVE  loop \o s \o t = loop \o (s \o t) /\ s \o t \in Fresh
  BY <1>1, FreshAppended DEF Fresh, Queues
<1>2. ASSUME NEW profile \in Profile, StartSta(profile) \/ StartStaFails(profile)
      PROVE  \E posts \in Fresh : loop' = loop \o posts
  <2>1. CASE StartSta(profile)
    BY <2>1, PostsFresh DEF StartSta
  <2>2. CASE StartStaFails(profile)
    <3>1. PICK applied \in BOOLEAN :
            LET d == InMode(driver, driver.up \/ applied)
            IN  loop' = loop \o ModePosts(driver, d.up) \o ModePosts(d, FALSE)
      BY <2>2 DEF StartStaFails
    <3> DEFINE d == InMode(driver, driver.up \/ applied)
               s == ModePosts(driver, d.up)
               t == ModePosts(d, FALSE)
    <3>2. s \in Fresh /\ t \in Fresh /\ loop' = loop \o s \o t
      BY <3>1, PostsFresh
    <3> HIDE DEF s, t
    <3> QED
      BY <1>1, <3>2
  <2> QED
    BY <1>2, <2>1, <2>2
<1>3. ASSUME NEW d, Disconnects(d, << >>)
      PROVE  \E posts \in Fresh : loop' = loop \o posts
  BY ZenonT(60), <1>1, <1>3, PostsFresh, FreshEvents DEF Disconnects
<1>4. CASE PauseRetries
  BY <1>0, <1>3, <1>4, FreshEvents DEF PauseRetries
<1>5. CASE (\E on \in BOOLEAN : SetAp(on)) \/ StartApFails
  BY <1>5, PostsFresh DEF SetAp, StartApFails
<1>6. CASE Scan
  <2> DEFINE on == InMode(driver, TRUE)
             s == ModePosts(driver, TRUE)
             t == ModePosts(on, sta.started)
  <2>1. s \in Fresh /\ t \in Fresh
    BY PostsFresh
  <2>2. loop' = loop \o s \o t \/ loop' = loop \o s
    BY <1>6 DEF Scan
  <2> HIDE DEF s, t
  <2>3. loop \o s \o t = loop \o (s \o t) /\ s \o t \in Fresh
    BY <1>1, <2>1
  <2>4. CASE loop' = loop \o s \o t
    BY <2>3, <2>4
  <2>5. CASE loop' = loop \o s
    BY <2>1, <2>5
  <2> QED
    BY <2>2, <2>4, <2>5
<1>7. CASE PollAnnounces \/ \E announce \in BOOLEAN : PollConnects(announce)
  BY <1>0, <1>7, FreshEvents DEF PollAnnounces, PollConnects
<1>8. ASSUME NEW announce \in BOOLEAN, PollAborts(announce)
      PROVE  \E posts \in Fresh : loop' = loop \o posts
  BY <1>0, <1>3, <1>8, FreshEvents DEF PollAborts
<1>9. CASE Joins \/ GetsAddress \/ LosesLink
  BY <1>9, FreshEvents DEF Joins, GetsAddress, LosesLink, DriverStep
<1> QED
  BY <1>2, <1>4, <1>5, <1>6, <1>7, <1>8, <1>9 DEF RuntimeNext

LEMMA PostsKeepFence ==
  ASSUME loop \in Queues, OldIsFenced, NEW posts \in Fresh, loop' = loop \o posts,
         sta.stop_pending => sta'.stop_pending
  PROVE  OldIsFenced'
<1>1. /\ posts \in Queues /\ loop' \in Queues /\ Len(loop') = Len(loop) + Len(posts)
      /\ \A i \in 1 .. Len(loop) : loop'[i] = loop[i]
      /\ \A i \in 1 .. Len(loop') :
           i \notin 1 .. Len(loop) =>
             i - Len(loop) \in 1 .. Len(posts) /\ loop'[i] = posts[i - Len(loop)]
  BY DEF Fresh, Queues
<1>2. ASSUME NEW i \in 1 .. Len(loop'), loop'[i].old
      PROVE  i \in 1 .. Len(loop) /\ loop[i].old
  BY <1>1, <1>2 DEF Fresh
<1>3. Len(loop) \in Nat /\ Len(loop') \in Nat /\ Len(loop) <= Len(loop')
  BY <1>1 DEF Queues
<1> QED
  BY SMTT(30), <1>1, <1>2, <1>3 DEF OldIsFenced

LEMMA HandlerKeepsFence ==
  ASSUME loop \in Queues, sta \in Flags, OldIsFenced,
         OnStaStart \/ OnStaStop \/ OnDisconnected \/ OnGotIp
  PROVE  OldIsFenced'
<1>1. loop # << >> /\ loop' = Tail(loop) /\ Head(loop) = loop[1]
  BY DEF OnStaStart, OnStaStop, OnDisconnected, OnGotIp, Handles, Queues
<1>2. /\ Len(loop) \in Nat \ {0} /\ Len(loop') = Len(loop) - 1
      /\ \A i \in 1 .. Len(loop') : loop'[i] = loop[i + 1]
  BY <1>1 DEF Queues
<1>3. CASE OnStaStop
  <2>1. loop[1].kind = "STA_STOP"
    BY <1>1, <1>3 DEF OnStaStop, Handles
  <2>2. \A i \in 1 .. Len(loop) : ~loop[i].old
    BY <1>2, <2>1 DEF OldIsFenced
  <2>3. \A i \in 1 .. Len(loop') : ~loop'[i].old
    BY <1>2, <2>2
  <2> QED
    BY <2>3 DEF OldIsFenced
<1>4. CASE ~OnStaStop
  <2>1. sta'.stop_pending = sta.stop_pending
    BY <1>4 DEF OnStaStart, OnDisconnected, OnGotIp, Flags
  <2>2. ASSUME NEW i \in 1 .. Len(loop'), loop'[i].old
        PROVE  /\ sta.stop_pending
               /\ \E j \in 1 .. Len(loop') : i < j /\ loop'[j].kind = "STA_STOP"
               /\ \A j \in 1 .. i : loop'[j].kind # "STA_STOP"
    <3>1. i + 1 \in 1 .. Len(loop) /\ loop[i + 1].old
      BY <1>2, <2>2
    <3>2. PICK j \in 1 .. Len(loop) : i + 1 < j /\ loop[j].kind = "STA_STOP"
      BY <3>1 DEF OldIsFenced
    <3>3. j - 1 \in 1 .. Len(loop') /\ i < j - 1 /\ loop'[j - 1].kind = "STA_STOP"
      BY <1>2, <3>2
    <3>4. ASSUME NEW k \in 1 .. i PROVE loop'[k].kind # "STA_STOP"
      <4>1. k + 1 \in 1 .. i + 1 /\ loop'[k] = loop[k + 1]
        BY <1>2
      <4> QED
        BY <3>1, <4>1 DEF OldIsFenced
    <3> QED
      BY <3>1, <3>3, <3>4 DEF OldIsFenced
  <2> QED
    BY <2>1, <2>2 DEF OldIsFenced
<1> QED
  BY <1>3, <1>4

(* The stop marks as old all that was posted before its STA_STOP.          *)
LEMMA StopFences ==
  ASSUME IInv, OldIsFenced, StopSta
  PROVE  OldIsFenced'
<1>1. loop \in Queues /\ sta \in Flags /\ driver \in Drivers
  BY TypeIs DEF IInv
<1>2. /\ sta'.stop_pending = (sta.stop_pending \/ sta.started)
      /\ sta.stop_pending => sta'.stop_pending
      /\ sta.started => sta'.stop_pending
  BY <1>1 DEF StopSta, StationOff, Flags
<1> DEFINE d == Disconnected(driver)
           before == loop \o DisconnectPosts(driver)
<1>3. CASE ~sta.started
  <2>1. loop' = loop \o << >>
    BY <1>1, <1>3 DEF StopSta, Queues
  <2> QED
    BY <1>1, <1>2, <2>1, FreshEvents, PostsKeepFence
<1>4. CASE sta.started /\ Disconnects(d, << >>)
  <2>1. loop' = loop \o (DisconnectPosts(driver) \o << >>)
    BY <1>1, <1>4, DisconnectedIs DEF Disconnects, Queues
  <2> QED
    BY <1>1, <1>2, <2>1, FreshEvents, PostsFresh, FreshAppended, PostsKeepFence
<1>5. CASE sta.started /\ loop' = FencedOff(before) \o ModePosts(d, FALSE)
  <2>1. /\ before \in Queues /\ FencedOff(before) \in Queues
        /\ Len(FencedOff(before)) = Len(before)
        /\ \A i \in 1 .. Len(before) :
             /\ FencedOff(before)[i].kind = before[i].kind
             /\ FencedOff(before)[i].old <=> before[i].old \/ ~StopWaits
    <3>1. before \in Queues
      BY <1>1, DisconnectedIs, Appended
    <3> HIDE DEF before
    <3>2. FencedOff(before) \in Queues
      BY <3>1, Fenced
    <3>3. Len(FencedOff(before)) = Len(before)
      BY <3>1 DEF FencedOff, Queues
    <3>4. ASSUME NEW i \in 1 .. Len(before)
          PROVE  /\ FencedOff(before)[i].kind = before[i].kind
                 /\ FencedOff(before)[i].old <=> before[i].old \/ ~StopWaits
      <4>1. before[i] \in DriverEvents
        BY <3>1 DEF Queues
      <4>2. FencedOff(before)[i] = [before[i] EXCEPT !.old = @ \/ ~StopWaits]
        BY DEF FencedOff
      <4> QED
        BY <4>1, <4>2 DEF DriverEvents
    <3> QED
      BY <3>1, <3>2, <3>3, <3>4
  <2>2. ModePosts(d, FALSE) = Event("STA_STOP")
    <3>1. d.up = TRUE /\ d.link = "down"
      BY <1>1, <1>5, DisconnectedIs DEF IInv, InterfaceIsUp, Drivers
    <3>2. << >> \o Event("STA_STOP") = Event("STA_STOP")
      BY EventIs DEF Queues
    <3> HIDE DEF d
    <3> QED
      BY <3>1, <3>2 DEF ModePosts, DisconnectPosts
  <2>3. /\ loop' \in Queues /\ Len(loop') = Len(before) + 1
        /\ \A i \in 1 .. Len(before) : loop'[i] = FencedOff(before)[i]
        /\ loop'[Len(before) + 1] = [kind |-> "STA_STOP", old |-> FALSE]
    <3> HIDE DEF before, d
    <3>1. loop' = FencedOff(before) \o << [kind |-> "STA_STOP", old |-> FALSE] >>
      BY <1>5, <2>2 DEF Event
    <3>2. [kind |-> "STA_STOP", old |-> FALSE] \in DriverEvents
      BY DEF DriverEvents
    <3>3. FencedOff(before) \in Seq(DriverEvents) /\ Len(FencedOff(before)) = Len(before)
      BY <2>1 DEF Queues
    <3>4. \A e \in DriverEvents :
            /\ FencedOff(before) \o << e >> \in Seq(DriverEvents)
            /\ Len(FencedOff(before) \o << e >>) = Len(FencedOff(before)) + 1
            /\ \A i \in 1 .. Len(FencedOff(before)) :
                 (FencedOff(before) \o << e >>)[i] = FencedOff(before)[i]
            /\ (FencedOff(before) \o << e >>)[Len(FencedOff(before)) + 1] = e
      BY <3>3, OneMore
    <3>5. PICK e \in DriverEvents : e = [kind |-> "STA_STOP", old |-> FALSE]
      BY <3>2
    <3>6. loop' = FencedOff(before) \o << e >>
      BY <3>1, <3>5
    <3>7. loop' \in Queues /\ Len(loop') = Len(before) + 1
      BY <3>3, <3>4, <3>6 DEF Queues
    <3>8. \A i \in 1 .. Len(before) : loop'[i] = FencedOff(before)[i]
      BY <3>3, <3>4, <3>6
    <3>9. loop'[Len(before) + 1] = e
      BY <3>3, <3>4, <3>6
    <3> QED
      BY <3>5, <3>7, <3>8, <3>9
  <2>4. /\ \A i \in 1 .. Len(loop) : i \in 1 .. Len(before) /\ before[i] = loop[i]
        /\ \A i \in 1 .. Len(before) : i \notin 1 .. Len(loop) =>
             ~before[i].old /\ before[i].kind # "STA_STOP"
    <3>1. DisconnectPosts(driver) \in Queues
      BY <1>1, DisconnectedIs
    <3>2. \A i \in 1 .. Len(DisconnectPosts(driver)) :
            /\ ~DisconnectPosts(driver)[i].old
            /\ DisconnectPosts(driver)[i].kind # "STA_STOP"
      BY DEF DisconnectPosts, Event
    <3>3. \A i \in 1 .. Len(before) : i \notin 1 .. Len(loop) =>
            /\ i - Len(loop) \in 1 .. Len(DisconnectPosts(driver))
            /\ before[i] = DisconnectPosts(driver)[i - Len(loop)]
      BY <1>1, <3>1 DEF Queues
    <3>4. \A i \in 1 .. Len(loop) : i \in 1 .. Len(before) /\ before[i] = loop[i]
      BY <1>1, <3>1 DEF Queues
    <3> HIDE DEF before
    <3> QED
      BY <3>2, <3>3, <3>4
  <2> HIDE DEF before, d
  <2>5. sta'.stop_pending /\ Len(before) \in Nat /\ Len(loop) \in Nat
    BY <1>1, <1>2, <1>5, <2>1 DEF Queues
  <2>6. ASSUME NEW i \in 1 .. Len(loop'), loop'[i].old
        PROVE  /\ \E j \in 1 .. Len(loop') : i < j /\ loop'[j].kind = "STA_STOP"
               /\ \A j \in 1 .. i : loop'[j].kind # "STA_STOP"
    <3>1. i \in 1 .. Len(before) /\ (before[i].old \/ ~StopWaits)
      <4>1. i # Len(before) + 1
        BY <2>3, <2>6
      <4>2. i \in 1 .. Len(before)
        BY <2>3, <2>5, <4>1
      <4> QED
        BY <2>1, <2>3, <2>6, <4>2
    <3>2. \A j \in 1 .. i : before[j].kind # "STA_STOP"
      <4>1. CASE before[i].old
        <5>1. i \in 1 .. Len(loop) /\ loop[i].old
          BY <2>4, <3>1, <4>1
        <5>2. \A j \in 1 .. i : j \in 1 .. Len(loop) /\ loop[j].kind # "STA_STOP"
          BY <2>5, <5>1 DEF OldIsFenced
        <5> QED
          BY <2>4, <5>2
      <4>2. CASE ~StopWaits
        <5>1. \A j \in 1 .. Len(before) : before[j].kind # "STA_STOP"
          BY <2>4, <4>2 DEF StopWaits
        <5> QED
          BY <2>5, <3>1, <5>1
      <4> QED
        BY <3>1, <4>1, <4>2
    <3>3. ASSUME NEW j \in 1 .. i PROVE loop'[j].kind # "STA_STOP"
      <4>1. j \in 1 .. Len(before)
        BY <2>5, <3>1
      <4> QED
        BY <2>1, <2>3, <3>2, <4>1
    <3>4. /\ Len(before) + 1 \in 1 .. Len(loop') /\ i < Len(before) + 1
          /\ loop'[Len(before) + 1].kind = "STA_STOP"
      BY <2>3, <2>5, <3>1
    <3> QED
      BY <3>3, <3>4
  <2> QED
    BY <2>5, <2>6 DEF OldIsFenced
<1> QED
  BY <1>3, <1>4, <1>5 DEF StopSta

LEMMA FenceKept ==
  ASSUME IInv, OldIsFenced, [RuntimeNext]_runtimeVars
  PROVE  OldIsFenced'
<1>1. loop \in Queues /\ sta \in Flags
  BY TypeIs DEF IInv
<1>2. CASE UNCHANGED runtimeVars
  BY <1>2 DEF runtimeVars, OldIsFenced
<1>3. CASE OnStaStart \/ OnStaStop \/ OnDisconnected \/ OnGotIp
  BY <1>1, <1>3, HandlerKeepsFence
<1>4. CASE StopSta
  BY <1>4, StopFences
<1>5. CASE RuntimeNext /\ ~(OnStaStart \/ OnStaStop \/ OnDisconnected \/ OnGotIp) /\ ~StopSta
  <2>1. PICK posts \in Fresh : loop' = loop \o posts
    BY <1>1, <1>5, StepsPost
  <2>2. sta'.stop_pending = sta.stop_pending
    BY <1>1, <1>5
    DEF RuntimeNext, StartSta, StartStaFails, PauseRetries, SetAp, StartApFails, Scan,
        PollAnnounces, PollAborts, PollConnects, Joins, GetsAddress, LosesLink,
        DriverStep, Flags
  <2> QED
    BY <1>1, <2>1, <2>2, PostsKeepFence
<1> QED
  BY <1>2, <1>3, <1>4, <1>5

(* Only the handler takes an event out of the loop.                        *)
LEMMA OnlyTheHandlerTakes ==
  ASSUME loop \in Queues, [RuntimeNext]_runtimeVars, NEW event, Takes(event)
  PROVE  OnStaStart \/ OnStaStop \/ OnDisconnected \/ OnGotIp
<1>1. loop # << >> /\ Len(loop') = Len(loop) - 1 /\ Len(loop) \in Nat
  BY DEF Takes, Queues
<1>2. CASE UNCHANGED runtimeVars
  BY <1>1, <1>2 DEF runtimeVars
<1>3. CASE StopSta
  <2>1. DisconnectPosts(driver) \in Queues /\ ModePosts(Disconnected(driver), FALSE) \in Queues
    BY PostsFresh DEF Fresh
  <2>2. loop \o DisconnectPosts(driver) \in Queues
    BY <2>1, Appended
  <2> DEFINE before == loop \o DisconnectPosts(driver)
  <2>3. Len(before) >= Len(loop)
    BY <1>1, <2>1 DEF Queues
  <2>4. FencedOff(before) \in Queues /\ Len(FencedOff(before)) = Len(before)
    <3> HIDE DEF before
    <3>1. before \in Queues
      BY <2>2 DEF before
    <3> QED
      BY <3>1, Fenced DEF FencedOff, Queues
  <2>5. \/ loop' = loop
        \/ loop' = FencedOff(before) \o ModePosts(Disconnected(driver), FALSE)
        \/ loop' = before \o << >>
    BY <1>3 DEF StopSta, Disconnects
  <2>6. before \in Queues
    BY <2>2
  <2> HIDE DEF before
  <2>7. Len(loop') >= Len(loop)
    <3> DEFINE posts == ModePosts(Disconnected(driver), FALSE)
    <3> HIDE DEF posts
    <3>1. /\ Len(FencedOff(before) \o posts) \in Nat
          /\ Len(FencedOff(before) \o posts) >= Len(FencedOff(before))
      BY <2>1, <2>4, Longer DEF posts, Queues
    <3>2. Len(before \o << >>) = Len(before) /\ Len(before) \in Nat
      BY <2>6 DEF Queues
    <3>3. CASE loop' = loop
      BY <1>1, <3>3
    <3>4. CASE loop' = FencedOff(before) \o posts
      BY <1>1, <2>3, <2>4, <3>1, <3>2, <3>4
    <3>5. CASE loop' = before \o << >>
      BY <1>1, <2>3, <3>2, <3>5
    <3> QED
      BY <2>5, <3>3, <3>4, <3>5 DEF posts
  <2> QED
    BY <1>1, <2>7
<1>4. CASE RuntimeNext /\ ~(OnStaStart \/ OnStaStop \/ OnDisconnected \/ OnGotIp) /\ ~StopSta
  <2>1. PICK posts \in Fresh : loop' = loop \o posts
    BY <1>4, StepsPost
  <2>2. Len(loop') >= Len(loop)
    BY <1>1, <2>1 DEF Fresh, Queues
  <2> QED
    BY <1>1, <2>2
<1> QED
  BY <1>2, <1>3, <1>4

(* "A STOP/START fence protects reconfiguration" (provisioning_runtime.c:  *)
(* 402): no loss or failed attempt of a station that was stopped is held   *)
(* against the one that followed, however many events wait in the loop.    *)
THEOREM FailuresOwn == RuntimeSpec => FailuresAreOwn
<1>1. RuntimeInit => OldIsFenced
  BY DEF RuntimeInit, OldIsFenced
<1>2. ASSUME IInv, OldIsFenced, [RuntimeNext]_runtimeVars
      PROVE  [\A event \in DriverEvents :
                Takes(event) /\ event.old
                  => /\ retry.in_flight => retry'.in_flight
                     /\ retry.online => retry'.online]_runtimeVars
  <2> SUFFICES ASSUME NEW event \in DriverEvents, Takes(event), event.old
               PROVE  UNCHANGED retry
    OBVIOUS
  <2>1. loop \in Queues
    BY <1>2, TypeIs DEF IInv
  <2>2. loop[1].old /\ 1 \in 1 .. Len(loop)
    BY <2>1 DEF Takes, Queues
  <2>3. sta.stop_pending
    BY <1>2, <2>2 DEF OldIsFenced
  <2>4. OnStaStart \/ OnStaStop \/ OnDisconnected \/ OnGotIp
    BY <1>2, <2>1, OnlyTheHandlerTakes
  <2> QED
    BY <2>3, <2>4 DEF OnStaStart, OnStaStop, OnDisconnected, OnGotIp, GotIpCounts
<1>3. IInv /\ OldIsFenced /\ [RuntimeNext]_runtimeVars => OldIsFenced'
  BY FenceKept
<1> QED
  BY <1>1, <1>2, <1>3, Invariant, PTL DEF RuntimeSpec, FailuresAreOwn

-----------------------------------------------------------------------------
(* The policy waits for its next attempt after one that failed.            *)
IsWaiting ==
  /\ policy.mode = "enabled" /\ ~policy.online /\ ~policy.in_flight
  /\ tried.failures > 0 /\ ~tried.lost

Counts ==
  /\ policy.backoff = AtMost(tried.failures, 3)
  /\ policy.auth_failures = tried.refused
  /\ policy.online => ~policy.in_flight

Spaced ==
  IsWaiting
    => tried.rest + policy.next_in >= RestAfter(tried.failures, tried.refused)

RetryInv == RetryTypeOK /\ Counts /\ Spaced

-----------------------------------------------------------------------------
(* The ranges of the fields as numbers, and the members the steps put in.  *)
LEMMA Ranges ==
  /\ Backoffs = 0 .. 3 /\ Refusals = 0 .. 3 /\ Attempts = 0 .. 4
  /\ Waits = 0 .. 61 /\ Outages = 0 .. 9 /\ Spells = 0 .. 6
  /\ Failures = 0 .. 4 /\ Rests = 0 .. 60
BY DEF Backoffs, Refusals, Attempts, Waits, Outages, Spells, Failures, Rests,
       AuthLimit, AttemptTime, AuthDelay, RecoveryTime, StableTime

LEMMA Zeros ==
  /\ 0 \in Backoffs /\ 0 \in Refusals /\ 0 \in Attempts /\ 0 \in Waits
  /\ 0 \in Outages /\ 0 \in Spells /\ 0 \in Failures /\ 0 \in Rests
  /\ AttemptTime \in Attempts
BY Ranges DEF AttemptTime

LEMMA DelaysAre ==
  /\ Delays[1] = 1 /\ Delays[2] = 3 /\ Delays[3] = 6 /\ Delays[4] = 12
BY DEF Delays

LEMMA StoppedType ==
  /\ Stopped \in Policy
  /\ Stopped.backoff = 0 /\ Stopped.auth_failures = 0
  /\ ~Stopped.online /\ ~Stopped.in_flight
BY Zeros DEF Stopped, Policy

LEMMA UntriedType ==
  Untried \in Tried /\ Untried.failures = 0 /\ Untried.refused = 0
BY Zeros DEF Untried, Tried

(* A failed attempt is followed by at least the distance it is due.        *)
LEMMA FailureSpaces ==
  ASSUME RetryTypeOK, Counts, NEW auth \in BOOLEAN, NEW jitter \in 0 .. 1,
         ~policy.online,
         policy' = AttemptFailed(policy, auth, jitter), CountFailure(auth)
  PROVE  RetryInv'
<1> DEFINE refused == IF auth THEN AtMost(policy.auth_failures + 1, AuthLimit) ELSE 0
           delay == IF refused = AuthLimit THEN AuthDelay
                    ELSE Delays[policy.backoff + 1]
           wait == delay + IF delay >= 10 THEN jitter ELSE 0
           backoff == AtMost(policy.backoff + 1, 3)
           failures == AtMost(tried.failures + 1, 4)
<1>1. /\ policy \in Policy /\ policy.backoff \in 0 .. 3
      /\ policy.auth_failures \in 0 .. 3
      /\ tried \in Tried /\ tried.failures \in 0 .. 4 /\ tried.refused \in 0 .. 3
  BY Ranges DEF RetryTypeOK, Policy, Tried
<1>2. refused \in 0 .. 3 /\ backoff \in 0 .. 3 /\ failures \in 0 .. 4
      /\ backoff = AtMost(failures, 3) /\ policy.backoff + 1 = failures
  BY <1>1 DEF AtMost, AuthLimit, Counts
<1>3. delay \in 0 .. 60 /\ wait \in 0 .. 61 /\ wait >= delay
  BY <1>1, <1>2, DelaysAre DEF AuthDelay
<1>4. delay = RestAfter(failures, refused)
  BY <1>2 DEF RestAfter
<1>5. policy' = [policy EXCEPT !.in_flight = FALSE, !.attempt_left = 0,
                   !.auth_failures = refused, !.backoff = backoff,
                   !.next_in = wait]
  BY DEF AttemptFailed
<1>6. tried' = [failures |-> failures, refused |-> refused, rest |-> 0, lost |-> FALSE]
  BY DEF CountFailure, Counts
<1> HIDE DEF refused, delay, wait, backoff, failures
<1>7. policy' \in Policy
  <2>1. refused \in Refusals /\ backoff \in Backoffs /\ wait \in Waits
    BY <1>2, <1>3, Ranges
  <2> QED
    BY <1>1, <1>5, <2>1, Zeros DEF Policy
<1>8. tried' \in Tried
  BY <1>2, <1>6, Ranges, Zeros DEF Tried
<1>9. /\ policy'.backoff = backoff /\ policy'.auth_failures = refused
      /\ policy'.next_in = wait /\ policy'.online = policy.online
  BY <1>1, <1>5 DEF Policy
<1>10. tried'.failures = failures /\ tried'.refused = refused /\ tried'.rest = 0
  BY <1>6
<1>11. Counts'
  BY <1>2, <1>9, <1>10 DEF Counts
<1>12. Spaced'
  BY <1>3, <1>4, <1>9, <1>10 DEF Spaced
<1> QED
  BY <1>7, <1>8, <1>11, <1>12 DEF RetryInv, RetryTypeOK

-----------------------------------------------------------------------------
LEMMA RetryInitHolds == RetryInit => RetryInv
BY StoppedType, UntriedType
DEF RetryInit, RetryInv, RetryTypeOK, Counts, Spaced, IsWaiting, AtMost

LEMMA RetryCallsKeep == RetryInv /\ (Start \/ Stop \/ Pause) => RetryInv'
<1> SUFFICES ASSUME RetryInv, Start \/ Stop \/ Pause PROVE RetryInv'
  OBVIOUS
<1>1. CASE Start \/ Stop
  <2>1. policy' \in Policy /\ tried' = Untried
        /\ policy'.backoff = 0 /\ policy'.auth_failures = 0
        /\ ~policy'.online /\ ~policy'.in_flight
    BY <1>1, StoppedType DEF Start, Stop, Policy
  <2> QED
    BY <2>1, UntriedType DEF RetryInv, RetryTypeOK, Counts, Spaced, IsWaiting, AtMost
<1>2. CASE Pause
  <2>1. RetryTypeOK'
    BY <1>2, Zeros DEF Pause, RetryInv, RetryTypeOK, Policy
  <2>2. Counts' /\ ~IsWaiting'
    BY <1>2 DEF Pause, RetryInv, RetryTypeOK, Counts, IsWaiting, Policy
  <2> QED
    BY <2>1, <2>2 DEF RetryInv, Spaced
<1> QED
  BY <1>1, <1>2

LEMMA RetryEventsKeep ==
  RetryInv /\ (GotIp \/ \E auth \in BOOLEAN : LosesOrFails(auth)) => RetryInv'
<1>1. ASSUME RetryInv, GotIp PROVE RetryInv'
  <2>1. RetryTypeOK'
    BY <1>1, Zeros DEF GotIp, Connected, RetryInv, RetryTypeOK, Policy
  <2>2. Counts' /\ ~IsWaiting'
    BY <1>1 DEF GotIp, Connected, RetryInv, RetryTypeOK, Counts, IsWaiting, Policy
  <2> QED
    BY <2>1, <2>2 DEF RetryInv, Spaced
<1>2. ASSUME RetryInv, NEW auth \in BOOLEAN, LosesOrFails(auth) PROVE RetryInv'
  <2>1. CASE /\ policy.online /\ policy' = LinkLost(policy)
             /\ tried' = [tried EXCEPT !.lost = TRUE]
    <3>1. RetryTypeOK'
      BY <1>2, <2>1, Zeros DEF LinkLost, RetryInv, RetryTypeOK, Policy, Tried
    <3>2. Counts' /\ ~IsWaiting'
      BY <1>2, <2>1 DEF LinkLost, RetryInv, RetryTypeOK, Counts, IsWaiting, Policy, Tried
    <3> QED
      BY <3>1, <3>2 DEF RetryInv, Spaced
  <2>2. CASE /\ ~policy.online /\ policy' = AttemptFailed(policy, auth, 0)
             /\ CountFailure(auth)
    BY <1>2, <2>2, FailureSpaces DEF RetryInv
  <2> QED
    BY <1>2, <2>1, <2>2 DEF LosesOrFails
<1> QED
  BY <1>1, <1>2

LEMMA RetryPollKeeps ==
  RetryInv /\ (PollStable \/ PollOpensAp \/ PollGivesUp \/ PollTries) => RetryInv'
<1>1. ASSUME RetryInv, PollStable PROVE RetryInv'
  <2>1. RetryTypeOK'
    BY <1>1, Zeros DEF PollStable, RetryInv, RetryTypeOK, Policy, Tried
  <2>2. Counts' /\ ~IsWaiting'
    BY <1>1
    DEF PollStable, Stable, RetryInv, RetryTypeOK, Counts, IsWaiting, Policy, Tried,
        AtMost
  <2> QED
    BY <2>1, <2>2 DEF RetryInv, Spaced
<1>2. ASSUME RetryInv, PollOpensAp PROVE RetryInv'
  BY <1>2 DEF PollOpensAp, RetryInv, RetryTypeOK, Counts, Spaced, IsWaiting, Policy
<1>3. ASSUME RetryInv, PollGivesUp PROVE RetryInv'
  BY <1>3, FailureSpaces DEF PollGivesUp, GivesUp, Tries, RetryInv
<1>4. ASSUME RetryInv, PollTries PROVE RetryInv'
  <2>1. RetryTypeOK'
    BY <1>4, Zeros DEF PollTries, RetryInv, RetryTypeOK, Policy
  <2>2. Counts' /\ ~IsWaiting'
    BY <1>4
    DEF PollTries, Connects, Tries, RetryInv, RetryTypeOK, Counts, IsWaiting, Policy
  <2> QED
    BY <2>1, <2>2 DEF RetryInv, Spaced
<1> QED
  BY <1>1, <1>2, <1>3, <1>4

(* Five seconds go from what is left to what has passed.                   *)
LEMMA TickKeeps == RetryInv /\ Tick => RetryInv'
<1> SUFFICES ASSUME RetryInv, Tick PROVE RetryInv'
  OBVIOUS
<1> DEFINE left == Less(policy.attempt_left)
           next == Less(policy.next_in)
           outage == AtMost(policy.outage_for + 1, RecoveryTime)
           stable == AtMost(policy.stable_for + 1, StableTime)
           rest == AtMost(tried.rest + 1, AuthDelay)
<1>1. /\ policy \in Policy /\ policy.attempt_left \in 0 .. 4
      /\ policy.next_in \in 0 .. 61 /\ policy.outage_for \in 0 .. 9
      /\ policy.stable_for \in 0 .. 6
      /\ tried \in Tried /\ tried.rest \in 0 .. 60 /\ tried.failures \in 0 .. 4
  BY Ranges DEF RetryInv, RetryTypeOK, Policy, Tried
<1>2. /\ left \in Attempts /\ next \in Waits /\ outage \in Outages
      /\ stable \in Spells /\ rest \in Rests
  BY <1>1, Ranges DEF Less, AtMost, RecoveryTime, StableTime, AuthDelay
<1>3. /\ policy' = [policy EXCEPT !.attempt_left = left, !.next_in = next,
                      !.outage_for = outage, !.stable_for = stable]
      /\ tried' = [tried EXCEPT !.rest = rest]
  BY DEF Tick
<1> HIDE DEF left, next, outage, stable, rest
<1>4. RetryTypeOK'
  BY <1>1, <1>2, <1>3 DEF RetryTypeOK, Policy, Tried
<1>5. /\ policy'.mode = policy.mode /\ policy'.online = policy.online
      /\ policy'.in_flight = policy.in_flight /\ policy'.backoff = policy.backoff
      /\ policy'.auth_failures = policy.auth_failures
      /\ policy'.next_in = next
      /\ tried'.failures = tried.failures /\ tried'.refused = tried.refused
      /\ tried'.lost = tried.lost /\ tried'.rest = rest
  BY <1>1, <1>3 DEF Policy, Tried
<1>6. Counts'
  BY <1>5 DEF RetryInv, Counts
<1>7. ASSUME IsWaiting'
      PROVE  tried'.rest + policy'.next_in >= RestAfter(tried'.failures, tried'.refused)
  <2>1. IsWaiting
    BY <1>5, <1>7 DEF IsWaiting
  <2>2. policy.next_in # 0
    BY <2>1 DEF Tick, Connects, Tries, IsWaiting
  <2>3. RestAfter(tried.failures, tried.refused) \in 0 .. 60
    BY <1>1, <2>1, DelaysAre DEF RestAfter, AuthDelay, IsWaiting
  <2>4. tried.rest + policy.next_in >= RestAfter(tried.failures, tried.refused)
    BY <2>1 DEF RetryInv, Spaced
  <2>5. rest + next >= RestAfter(tried.failures, tried.refused)
    BY <1>1, <2>2, <2>3, <2>4 DEF rest, next, Less, AtMost, AuthDelay
  <2> QED
    BY <1>5, <2>5
<1> QED
  BY <1>4, <1>6, <1>7 DEF RetryInv, Spaced

LEMMA RetryStepKeeps == RetryInv /\ [RetryNext]_retryVars => RetryInv'
<1>1. RetryInv /\ UNCHANGED retryVars => RetryInv'
  BY DEF retryVars, RetryInv, RetryTypeOK, Counts, Spaced, IsWaiting
<1> QED
  BY <1>1, RetryCallsKeep, RetryEventsKeep, RetryPollKeeps, TickKeeps DEF RetryNext

-----------------------------------------------------------------------------
(* The policy and its history keep their types (provisioning_retry_t).     *)
THEOREM RetryTypeCorrect == RetrySpec => []RetryTypeOK
<1>1. RetryInv => RetryTypeOK
  BY DEF RetryInv
<1> QED
  BY RetryInitHolds, RetryStepKeeps, <1>1, PTL DEF RetrySpec

(* provisioning_retry_failed and _poll (provisioning_retry.c:52, 89): no   *)
(* order of losses, refusals, pauses and short connections makes an        *)
(* attempt come before its distance from the last one that failed is over. *)
THEOREM SpacesAttempts == RetrySpec => AttemptsAreSpaced
<1>1. ASSUME RetryInv, PollTries, tried.failures > 0, ~tried.lost
      PROVE  tried.rest >= RestAfter(tried.failures, tried.refused)
  <2>1. IsWaiting /\ policy.next_in = 0
    BY <1>1 DEF PollTries, Connects, Tries, IsWaiting
  <2>2. tried.rest \in 0 .. 60
    BY <1>1, Ranges DEF RetryInv, RetryTypeOK, Tried
  <2> QED
    BY <1>1, <2>1, <2>2 DEF RetryInv, Spaced
<1>2. RetryInv /\ [RetryNext]_retryVars
        => [PollTries /\ tried.failures > 0 /\ ~tried.lost
              => tried.rest >= RestAfter(tried.failures, tried.refused)]_retryVars
  BY <1>1
<1> QED
  BY RetryInitHolds, RetryStepKeeps, <1>2, PTL DEF RetrySpec, AttemptsAreSpaced

=============================================================================
