----------------------------- MODULE MainLoopProofs -----------------------------
(* The main loop with its components, for any number of items, systems,        *)
(* devices, workers and bios and any stories: what each component relies on    *)
(* about its own messages, while those of the others come and go between them. *)
EXTENDS MainLoop, TLAPS, FiniteSetTheorems

Items == Folders \cup Games

(* The messages of each component *)
Stages == {"Text", "Media", "Completed"}
Messages ==
    [to: {"list"}, item: Items \cup {NoItem}]
      \cup [to: {"systems"}, count: Systems \cup {NoSystem}]
      \cup [to: {"mounts"}, mounted: BOOLEAN, device: Devices \cup {NoDevice}]
      \cup [to: {"scraper"}, game: Games, stage: Stages]
      \cup [to: {"bios"}, window: Windows \cup {NoWindow}, index: Nat]

(* What the messages are made from *)
ListTyped   == cursor \in Items /\ mNextItem \in Items \cup {NoItem} /\ item \in Items \cup {NoItem}
SystemTyped ==
    /\ selected \in Systems /\ mOrder \in Systems \cup {NoSystem}
    /\ counting \in Systems \cup {NoSystem} /\ count \in Systems \cup {NoSystem}
MountTyped ==
    /\ mounted \subseteq Devices /\ mMountPoints \subseteq Devices /\ newMounts \subseteq Devices
    /\ reports \subseteq BOOLEAN \X Devices /\ change \in BOOLEAN \X (Devices \cup {NoDevice})
ScrapeTyped ==
    /\ feeds \subseteq Games /\ feed \in [Workers -> Games]
    /\ worker \in [Workers -> {"idle", "allocating", "scraping", "downloading", "completing",
                               "stamping", "freeing"}]
    /\ engine \in [Workers -> Engines] /\ mBusyEngines \subseteq Engines
BiosTyped ==
    /\ mReporting \in Windows \cup {NoWindow} /\ window \in Windows \cup {NoWindow}
    /\ message.index \in Nat /\ scanned \in Nat /\ shown \in Nat

Typed ==
    posted \in Seq(Messages) /\ ListTyped /\ SystemTyped /\ MountTyped /\ ScrapeTyped /\ BiosTyped

--------------------------------------------------------------------------------
(* Once a change was sent, the last message of the monitor carries its flag and *)
(* mPendingMountPoint its device, or the interface was told.                   *)
LastMount(q, i) == i \in 1 .. Len(q) /\ q[i].to = "mounts" /\ \A j \in i + 1 .. Len(q) : q[j].to # "mounts"
NoMount(q)      == \A i \in 1 .. Len(q) : q[i].to # "mounts"

MountInv ==
    /\ monitor # "writing" => mPendingMountPoint = change[2]
    /\ monitor \notin {"writing", "sending"} =>
          \/ \E i \in 1 .. Len(posted) : LastMount(posted, i) /\ posted[i].mounted = change[1]
          \/ NoMount(posted) /\ notified = change

(* The worker has a game that it has not reported the last stage of.           *)
InHand(w) == worker[w] \in {"allocating", "scraping", "downloading", "completing"}

(* Of the stages that queue q reports *)
Staged(q, g)     == \E i \in 1 .. Len(q) : q[i].to = "scraper" /\ q[i].game = g
Completing(q, g) == \E i \in 1 .. Len(q) : q[i].to = "scraper" /\ q[i].game = g /\ q[i].stage = "Completed"
CompletedLast(q) ==
    \A i, j \in 1 .. Len(q) :
        i < j /\ q[i].to = "scraper" /\ q[j].to = "scraper" /\ q[i].game = q[j].game => q[i].stage # "Completed"

(* A running scrape is in one place: queued, in the hands of one worker, or     *)
(* over with its last message on the way, behind the others.                   *)
ScrapeInv ==
    /\ \A g \in Games : Staged(posted, g) => g \in mRunningScrapes
    /\ CompletedLast(posted)
    /\ feeds \subseteq mRunningScrapes
    /\ \A w \in Workers : InHand(w) => feed[w] \in mRunningScrapes \ feeds
    /\ \A v, w \in Workers : InHand(v) /\ InHand(w) /\ v # w => feed[v] # feed[w]
    /\ \A g \in Games : Completing(posted, g) => g \notin feeds /\ \A w \in Workers : InHand(w) => feed[w] # g

(* The engines that are busy are the ones of the workers that have one.        *)
HasEngine(w) == worker[w] \notin {"idle", "allocating"}
EngineInv ==
    /\ mBusyEngines = {engine[w] : w \in {v \in Workers : HasEngine(v)}}
    /\ \A v, w \in Workers : HasEngine(v) /\ HasEngine(w) /\ v # w => engine[v] # engine[w]

(* A worker that has taken a game finds an engine that is free.                *)
EngineIsFree == \A w \in Workers : worker[w] = "allocating" => ~(Engines \subseteq mBusyEngines)

(* The lock, and the threads that run. While the scanning thread is under way,  *)
(* the flag that lets it go on is only cleared by a handler that holds the lock. *)
LockInv ==
    /\ scanner \in {"none", "born", "running", "leaving", "ended"}
    /\ mLocker \in {"nobody", "main", "scanner", "web"}
    /\ run = "none" <=> mLocker \in {"nobody", "main"}
    /\ mLocker = "scanner" <=> scanner = "running"
    /\ mLocker = "main" <=> main = "joining"
    /\ mLocker = "web" => mReporting = NoWindow
    /\ scanner \in {"born", "running", "leaving"} /\ main # "joining" => mIsRunning

(* A message of queue q that a window is told of, and the end of a scan *)
Told(m) == m.to = "bios" /\ m.window # NoWindow
Over(q) == \E i \in 1 .. Len(q) : Told(q[i]) /\ q[i].index = 0

(* The bios after bios k; the end of the scan, 0, comes after the last one.    *)
After(k) == IF k = Bios THEN 0 ELSE k + 1

(* What windows are told of by queue q, after bios "first" and up to bios       *)
(* "last", is every bios in its order: so the queue starts, goes on and ends.  *)
Starts(q, first) ==
    \A i \in 1 .. Len(q) :
        Told(q[i]) /\ (\A k \in 1 .. i - 1 : ~Told(q[k])) => q[i].index = After(first)
GoesOn(q) ==
    \A i, j \in 1 .. Len(q) :
        i < j /\ Told(q[i]) /\ Told(q[j]) /\ (\A k \in i + 1 .. j - 1 : ~Told(q[k]))
          => q[j].index = After(q[i].index)
Ends(q, last) ==
    \A i \in 1 .. Len(q) :
        Told(q[i]) /\ (\A k \in i + 1 .. Len(q) : ~Told(q[k])) => q[i].index = last
TellsNothing(q) == \A i \in 1 .. Len(q) : ~Told(q[i])
Chain(q, first, last) ==
    Starts(q, first) /\ GoesOn(q) /\ Ends(q, last) /\ (TellsNothing(q) => first = last)

(* The last bios that a window was told of, with the one of the handler, and    *)
(* the last that the scanning thread has sent *)
Handled == main \in {"progressing", "completing"} /\ ToWindow
Given   == IF Handled THEN message.index ELSE shown
Sent    == IF run = "scanning" /\ mLocker = "scanner" /\ mReporting # NoWindow THEN scanned ELSE 0

(* The order of what is told, and the report that comes before its end *)
OrderInv ==
    /\ Chain(posted, Given, Sent)
    /\ main = "completing" => message.index = 0
    /\ main = "progressing" => message.index # 0
    /\ Handled => message.index = After(shown)
ReportInv ==
    Over(posted) \/ (main = "completing" /\ ToWindow) => report \/ mLocker = "scanner"

ScanInv == LockInv /\ OrderInv /\ ReportInv

--------------------------------------------------------------------------------
(* A step of component c turns queue q into r: it leaves the messages of the    *)
(* others as they are.                                                         *)
Mail(c, q, r) ==
    \/ r = q
    \/ \E m \in Messages : m.to = c /\ r = Append(q, m)
    \/ q # <<>> /\ Head(q).to = c /\ r = Tail(q)

LEMMA MailTyped ==
    ASSUME NEW c, NEW q \in Seq(Messages), NEW r, Mail(c, q, r)
    PROVE  r \in Seq(Messages)
<1>1. \A m \in Messages : Append(q, m) \in Seq(Messages)
  OBVIOUS
<1>2. q # <<>> => Tail(q) \in Seq(Messages)
  OBVIOUS
<1> QED
  BY <1>1, <1>2 DEF Mail

ListPart   == SlowStep \/ SlowUser \/ EnterList \/ LeaveList
SystemPart == SystemStep \/ (\E s \in Systems : SelectSystem(s))
MountPart  == MountStep \/ (\E d \in Devices : MountOrUnmount(d))
ScrapePart == ScrapeStep \/ ScrapeCursor
BiosPart   == BiosStep \/ BiosUser

(* Every step is one of a component, that leaves the others alone.              *)
LEMMA Parts ==
    ASSUME [Next]_vars
    PROVE  \/ ListPart /\ UNCHANGED <<mountVars, scrapeVars, biosVars>>
              /\ (UNCHANGED systemVars \/ (LeaveList /\ goToSystem))
           \/ SystemPart /\ OfSystems
           \/ MountPart /\ OfMounts
           \/ ScrapePart /\ OfScraper
           \/ BiosPart /\ OfBios
           \/ UNCHANGED <<main, posted, slowVars, systemVars, mountVars, scrapeVars, biosVars>>
<1>1. CASE Ask
  BY <1>1 DEF Ask, ChangeView, ListPart, SystemPart, MountPart, ScrapePart, BiosPart, OfList,
              OfSystems, OfMounts, OfScraper, OfBios
<1>2. CASE Work
  BY <1>2 DEF Work, ListPart, SystemPart, MountPart, ScrapePart, BiosPart, OfList
<1>3. CASE UNCHANGED vars
  BY <1>3 DEF vars
<1> QED
  BY <1>1, <1>2, <1>3 DEF Next

LEMMA ListMail ==
    ASSUME Typed, ListPart
    PROVE  Mail("list", posted, posted') /\ UNCHANGED main /\ ListTyped'
<1> USE DEF Typed, ListTyped, Items, listVars, orderVars, fetchVars
<1>1. CASE SlowUser \/ EnterList \/ LeaveList
  BY <1>1 DEF SlowUser, CursorChanged, EnterList, LeaveList, DoUpdateGameInformation,
              FetchSlowDataFor, Mail
<1>2. CASE ReceiveSlowData
  BY <1>2 DEF ReceiveSlowData, Receive, Mail
<1>3. CASE SendSlowData
  <2>1. [to |-> "list", item |-> item] \in Messages
    BY DEF Messages
  <2> QED
    BY <1>3, <2>1 DEF SendSlowData, Post, Mail
<1>4. CASE FetcherWaits \/ FetcherWakes \/ TakeItem \/ StoreImages
  BY <1>4 DEF FetcherWaits, FetcherWakes, TakeItem, StoreImages, Mail
<1> QED
  BY <1>1, <1>2, <1>3, <1>4 DEF ListPart, SlowStep, FetcherStep

LEMMA SystemMail ==
    ASSUME Typed, SystemPart
    PROVE  Mail("systems", posted, posted') /\ UNCHANGED main /\ SystemTyped'
<1> USE DEF Typed, SystemTyped
<1>1. CASE \E s \in Systems : SelectSystem(s)
  BY <1>1 DEF SelectSystem, onCursorChanged, SetNextSystem, Mail
<1>2. CASE ReceiveGameCount
  BY <1>2 DEF ReceiveGameCount, Receive, Mail
<1>3. CASE SendGameCount
  <2>1. [to |-> "systems", count |-> count] \in Messages
    BY DEF Messages
  <2> QED
    BY <1>3, <2>1 DEF SendGameCount, Post, Mail
<1>4. CASE CounterWaits \/ CounterWakes \/ TakeSystem \/ GameCount
  BY <1>4 DEF CounterWaits, CounterWakes, TakeSystem, GameCount, Mail
<1> QED
  BY <1>1, <1>2, <1>3, <1>4 DEF SystemPart, SystemStep, CounterStep

LEMMA MountMail ==
    ASSUME Typed, MountPart
    PROVE  Mail("mounts", posted, posted') /\ UNCHANGED main /\ MountTyped'
<1> USE DEF Typed, MountTyped
<1>1. CASE \E d \in Devices : MountOrUnmount(d)
  BY <1>1 DEF MountOrUnmount, Mail
<1>2. CASE ReceiveMountEvent
  BY <1>2 DEF ReceiveMountEvent, Receive, Mail
<1>3. CASE SendEvent
  <2>1. [to |-> "mounts", mounted |-> change[1], device |-> change[2]] \in Messages
    BY DEF Messages
  <2> QED
    BY <1>3, <2>1 DEF SendEvent, Post, Mail
<1>4. CASE Compare
  <2>1. \A r \in reports' : \E b \in BOOLEAN, d \in Devices : r = <<b, d>>
    BY <1>4 DEF Compare
  <2>2. reports' \subseteq BOOLEAN \X Devices
    BY <2>1
  <2>3. mMountPoints' \subseteq Devices /\ UNCHANGED <<main, posted, mounted, newMounts, change>>
    BY <1>4 DEF Compare
  <2> QED
    BY <2>2, <2>3 DEF Mail
<1>5. CASE SetPending
  <2>1. \A r \in reports : r \in BOOLEAN \X (Devices \cup {NoDevice})
    OBVIOUS
  <2>2. UNCHANGED <<main, posted, mounted, mMountPoints, newMounts>> /\ change' \in reports /\ reports' \subseteq reports
    BY <1>5 DEF SetPending
  <2> QED
    BY <2>1, <2>2 DEF Mail
<1>6. CASE Open \/ Poll \/ LoadMountPoints \/ PendingSet \/ KeepTable
  BY <1>6 DEF Open, Poll, LoadMountPoints, PendingSet, KeepTable, Mail
<1> QED
  BY <1>1, <1>2, <1>3, <1>4, <1>5, <1>6 DEF MountPart, MountStep, MonitorStep

LEMMA StageIsMessage ==
    ASSUME Typed, NEW w \in Workers, NEW stage \in Stages
    PROVE  [to |-> "scraper", game |-> feed[w], stage |-> stage] \in Messages
BY DEF Typed, ScrapeTyped, Messages

LEMMA ScrapeMail ==
    ASSUME Typed, ScrapePart
    PROVE  Mail("scraper", posted, posted') /\ UNCHANGED main /\ ScrapeTyped'
<1> USE DEF ScrapeTyped, poolVars
<1>0. ScrapeTyped
  BY DEF Typed
<1>1. CASE ScrapeCursor
  BY <1>0, <1>1 DEF ScrapeCursor, Push, Mail
<1>2. CASE ReceiveStage
  BY <1>0, <1>2 DEF ReceiveStage, Receive, Mail
<1>3. ASSUME NEW w \in Workers, TakeFeed(w) \/ AllocateEngine(w) \/ SetTimeStamp(w) \/ FreeEngine(w)
      PROVE  Mail("scraper", posted, posted') /\ UNCHANGED main /\ ScrapeTyped'
  BY <1>0, <1>3 DEF TakeFeed, AllocateEngine, SetTimeStamp, FreeEngine, BusyWithout, Goto, Mail
<1>4. ASSUME NEW w \in Workers, Scrape(w) \/ DownloadAndStoreMedia(w) \/ Complete(w)
      PROVE  Mail("scraper", posted, posted') /\ UNCHANGED main /\ ScrapeTyped'
  <2>1. \A stage \in Stages : [to |-> "scraper", game |-> feed[w], stage |-> stage] \in Messages
    BY StageIsMessage
  <2> QED
    BY <1>0, <1>4, <2>1
       DEF Scrape, DownloadAndStoreMedia, Complete, StageCompleted, Aborts, Post, Goto, Mail, Stages
<1> QED
  BY <1>1, <1>2, <1>3, <1>4 DEF ScrapePart, ScrapeStep, WorkerStep

LEMMA BiosMail ==
    ASSUME Typed, BiosPart
    PROVE  Mail("bios", posted, posted') /\ BiosTyped'
<1> USE DEF Typed, BiosTyped, biosVars
<1>1. \A index \in Nat : [to |-> "bios", window |-> mReporting, index |-> index] \in Messages
  BY DEF Messages
<1>2. CASE OpenWindow \/ CloseWindow \/ StartRescan \/ WebScan
  BY <1>2 DEF OpenWindow, CloseWindow, StartRescan, WebScan, Mail
<1>3. CASE ScanAt
  BY <1>1, <1>3 DEF ScanAt, Leave, Send, Post, Mail
<1>4. CASE EndScan
  BY <1>1, <1>4 DEF EndScan, Send, Post, Mail
<1>5. CASE ReceiveBios
  <2>1. Head(posted) \in Messages /\ Head(posted).to = "bios"
    BY <1>5 DEF ReceiveBios, Receive
  <2>2. Head(posted).index \in Nat
    BY <2>1 DEF Messages
  <2> QED
    BY <1>5, <2>2 DEF ReceiveBios, Receive, Mail
<1>6. CASE Scan \/ ScanProgress \/ ScanComplete \/ Join
  BY <1>6 DEF Scan, ScanProgress, ScanComplete, StopThread, Join, Mail
<1>7. CASE LockAndScan \/ GenerateReport \/ EndThread
  BY <1>7 DEF LockAndScan, GenerateReport, Leave, EndThread, Mail
<1> QED
  BY <1>2, <1>3, <1>4, <1>5, <1>6, <1>7 DEF BiosPart, BiosStep, BiosUser, BiosOnMain, ScannerStep

(* What a step may do, seen from one component: its own step, or messages of    *)
(* another one. Only the bios manager leaves the main loop.                     *)
LEMMA TypedNext == Typed /\ [Next]_vars => Typed'
<1> SUFFICES ASSUME Typed, [Next]_vars PROVE Typed'
  OBVIOUS
<1>1. CASE ListPart /\ UNCHANGED <<mountVars, scrapeVars, biosVars>>
           /\ (UNCHANGED systemVars \/ (LeaveList /\ goToSystem))
  <2>1. SystemTyped'
    BY <1>1 DEF Typed, SystemTyped, systemVars, goToSystem, onCursorChanged, SetNextSystem
  <2> QED
    BY <1>1, <2>1, ListMail, MailTyped
       DEF Typed, MountTyped, ScrapeTyped, BiosTyped, mountVars, scrapeVars, poolVars, biosVars
<1>2. CASE SystemPart /\ OfSystems
  BY <1>2, SystemMail, MailTyped
     DEF Typed, ListTyped, MountTyped, ScrapeTyped, BiosTyped, OfSystems, slowVars, listVars, orderVars,
         fetchVars, mountVars, scrapeVars, poolVars, biosVars
<1>3. CASE MountPart /\ OfMounts
  BY <1>3, MountMail, MailTyped
     DEF Typed, ListTyped, SystemTyped, ScrapeTyped, BiosTyped, OfMounts, slowVars, listVars, orderVars,
         fetchVars, systemVars, scrapeVars, poolVars, biosVars
<1>4. CASE ScrapePart /\ OfScraper
  BY <1>4, ScrapeMail, MailTyped
     DEF Typed, ListTyped, SystemTyped, MountTyped, BiosTyped, OfScraper, slowVars, listVars, orderVars,
         fetchVars, systemVars, mountVars, biosVars
<1>5. CASE BiosPart /\ OfBios
  BY <1>5, BiosMail, MailTyped
     DEF Typed, ListTyped, SystemTyped, MountTyped, ScrapeTyped, OfBios, slowVars, listVars, orderVars,
         fetchVars, systemVars, mountVars, scrapeVars, poolVars
<1>6. CASE UNCHANGED <<main, posted, slowVars, systemVars, mountVars, scrapeVars, biosVars>>
  BY <1>6
     DEF Typed, ListTyped, SystemTyped, MountTyped, ScrapeTyped, BiosTyped, slowVars, listVars, orderVars,
         fetchVars, systemVars, mountVars, scrapeVars, poolVars, biosVars
<1> QED
  BY <1>1, <1>2, <1>3, <1>4, <1>5, <1>6, Parts

LEMMA EngineZero == Workers # {} => 0 \in Engines
BY WorkersAssumption, FS_CardinalityType, FS_EmptySet DEF Engines

LEMMA InitTyped == Init => Typed
<1> SUFFICES ASSUME Init PROVE Typed
  OBVIOUS
<1>1. posted \in Seq(Messages)
  BY DEF Init
<1>2. ListTyped /\ SystemTyped
  BY FirstAssumption DEF Init, SlowInit, SystemInit, ListTyped, SystemTyped, Items
<1>3. MountTyped
  BY DEF Init, MountInit, MountTyped, NoChange
<1>4. ScrapeTyped
  <2>1. (CHOOSE g \in Games : TRUE) \in Games
    BY FirstAssumption
  <2>2. \A w \in Workers : 0 \in Engines
    BY EngineZero
  <2> QED
    BY <2>1, <2>2 DEF Init, ScrapeInit, ScrapeTyped
<1>5. BiosTyped
  BY DEF Init, BiosInit, BiosTyped
<1> QED
  BY <1>1, <1>2, <1>3, <1>4, <1>5 DEF Typed

--------------------------------------------------------------------------------
(* The mount monitor                                                           *)

KeepsMounts(q, r) ==
    /\ NoMount(q) => NoMount(r)
    /\ \A i \in 1 .. Len(q) : LastMount(q, i) => \E j \in 1 .. Len(r) : LastMount(r, j) /\ r[j] = q[i]

LEMMA MountOthers ==
    ASSUME NEW c, c # "mounts", NEW q \in Seq(Messages), NEW r, Mail(c, q, r)
    PROVE  KeepsMounts(q, r)
<1> USE DEF NoMount, LastMount, KeepsMounts
<1>1. ASSUME NEW m \in Messages, m.to = c, r = Append(q, m)
      PROVE  /\ NoMount(q) => NoMount(r)
             /\ \A i \in 1 .. Len(q) : LastMount(q, i) => i \in 1 .. Len(r) /\ LastMount(r, i) /\ r[i] = q[i]
  <2>1. /\ Len(r) = Len(q) + 1 /\ r[Len(q) + 1].to # "mounts" /\ Len(q) \in Nat
        /\ \A i \in 1 .. Len(q) : r[i] = q[i]
    BY <1>1
  <2>2. \A j \in 1 .. Len(r) : j \in 1 .. Len(q) \/ r[j].to # "mounts"
    BY <2>1
  <2>3. NoMount(q) => NoMount(r)
    BY <2>1, <2>2
  <2>4. ASSUME NEW i \in 1 .. Len(q), LastMount(q, i)
        PROVE  i \in 1 .. Len(r) /\ LastMount(r, i) /\ r[i] = q[i]
    <3>1. \A j \in i + 1 .. Len(r) : j \in i + 1 .. Len(q) \/ r[j].to # "mounts"
      BY <2>1, <2>2
    <3>2. \A j \in i + 1 .. Len(q) : j \in 1 .. Len(q)
      BY <2>1
    <3> QED
      BY <2>1, <2>4, <3>1, <3>2
  <2> QED
    BY <2>3, <2>4
<1>2. ASSUME q # <<>>, Head(q).to = c, r = Tail(q)
      PROVE  /\ NoMount(q) => NoMount(r)
             /\ \A i \in 1 .. Len(q) : LastMount(q, i) => i - 1 \in 1 .. Len(r) /\ LastMount(r, i - 1) /\ r[i - 1] = q[i]
  <2>1. /\ Len(r) = Len(q) - 1 /\ Len(q) \in Nat /\ q[1].to # "mounts"
        /\ \A i \in 1 .. Len(q) - 1 : r[i] = q[i + 1]
    BY <1>2
  <2>2. ASSUME NEW i \in 1 .. Len(q), LastMount(q, i)
        PROVE  i - 1 \in 1 .. Len(r) /\ LastMount(r, i - 1) /\ r[i - 1] = q[i]
    <3>1. i - 1 \in 1 .. Len(r) /\ r[i - 1] = q[i]
      BY <2>1, <2>2
    <3>2. ASSUME NEW j \in (i - 1) + 1 .. Len(r)
          PROVE  r[j].to # "mounts"
      <4>1. r[j] = q[j + 1] /\ j + 1 \in i + 1 .. Len(q)
        BY <2>1, <3>1
      <4> QED
        BY <2>2, <4>1
    <3>3. r[i - 1].to = "mounts"
      BY <2>2, <3>1
    <3> QED
      BY <3>1, <3>2, <3>3
  <2>3. NoMount(q) => NoMount(r)
    BY <2>1
  <2> QED
    BY <2>2, <2>3
<1> QED
  BY <1>1, <1>2 DEF Mail

LEMMA MountOwn ==
    ASSUME Typed, MountInv, MountPart
    PROVE  MountInv'
<1>0. posted \in Seq(Messages) /\ change \in BOOLEAN \X (Devices \cup {NoDevice})
  BY DEF Typed, MountTyped
<1>1. CASE \E d \in Devices : MountOrUnmount(d)
  BY <1>1 DEF MountOrUnmount, MountInv
<1>2. CASE ReceiveMountEvent
  <2>1. /\ Len(posted') = Len(posted) - 1 /\ Len(posted) \in Nat \ {0}
        /\ \A i \in 1 .. Len(posted) - 1 : posted'[i] = posted[i + 1]
    BY <1>0, <1>2 DEF ReceiveMountEvent, Receive
  <2>2. /\ posted[1].to = "mounts" /\ notified' = <<posted[1].mounted, mPendingMountPoint>>
        /\ UNCHANGED <<monitor, mPendingMountPoint, change>>
    BY <1>0, <1>2 DEF ReceiveMountEvent, Receive, DeviceNow
  <2>3. ASSUME monitor \notin {"writing", "sending"}
        PROVE  \/ \E i \in 1 .. Len(posted') : LastMount(posted', i) /\ posted'[i].mounted = change[1]
               \/ NoMount(posted') /\ notified' = change
    <3>1. PICK i \in 1 .. Len(posted) : LastMount(posted, i) /\ posted[i].mounted = change[1]
      BY <2>1, <2>2, <2>3 DEF MountInv, NoMount
    <3>2. CASE i = 1
      <4>1. NoMount(posted')
        BY <2>1, <3>1, <3>2 DEF NoMount, LastMount
      <4>2. mPendingMountPoint = change[2]
        BY <2>3 DEF MountInv
      <4> QED
        BY <1>0, <2>2, <3>1, <3>2, <4>1, <4>2
    <3>3. CASE i # 1
      <4>1. i - 1 \in 1 .. Len(posted') /\ LastMount(posted', i - 1) /\ posted'[i - 1] = posted[i]
        BY <2>1, <3>1, <3>3 DEF LastMount
      <4> QED
        BY <3>1, <4>1
    <3> QED
      BY <3>2, <3>3
  <2> QED
    BY <2>2, <2>3 DEF MountInv
<1>3. CASE SendEvent
  <2>1. /\ Len(posted') = Len(posted) + 1 /\ Len(posted) \in Nat
        /\ posted'[Len(posted) + 1].to = "mounts" /\ posted'[Len(posted) + 1].mounted = change[1]
    BY <1>0, <1>3 DEF SendEvent, Post
  <2>2. LastMount(posted', Len(posted) + 1)
    BY <2>1 DEF LastMount
  <2>3. mPendingMountPoint' = change'[2] /\ change' = change
    BY <1>3 DEF SendEvent, MountInv
  <2> QED
    BY <2>1, <2>2, <2>3 DEF MountInv
<1>4. CASE Open \/ Poll \/ LoadMountPoints \/ Compare \/ KeepTable
  BY <1>4 DEF Open, Poll, LoadMountPoints, Compare, KeepTable, MountInv
<1>5. CASE SetPending \/ PendingSet
  BY <1>5 DEF SetPending, PendingSet, MountInv
<1> QED
  BY <1>1, <1>2, <1>3, <1>4, <1>5 DEF MountPart, MountStep, MonitorStep

LEMMA MountNext == Typed /\ MountInv /\ [Next]_vars => MountInv'
<1> SUFFICES ASSUME Typed, MountInv, [Next]_vars PROVE MountInv'
  OBVIOUS
<1>0. posted \in Seq(Messages)
  BY DEF Typed
<1>1. ASSUME UNCHANGED mountVars, NEW c, c # "mounts", Mail(c, posted, posted')
      PROVE  MountInv'
  <2>1. KeepsMounts(posted, posted')
    BY <1>0, <1>1, MountOthers
  <2>2. UNCHANGED <<monitor, mPendingMountPoint, change, notified>>
    BY <1>1 DEF mountVars
  <2> QED
    BY <2>1, <2>2 DEF MountInv, KeepsMounts
<1>2. CASE UNCHANGED <<posted, mountVars>>
  BY <1>2 DEF MountInv, mountVars
<1>3. CASE MountPart
  BY <1>3, MountOwn
<1>4. CASE ListPart /\ UNCHANGED mountVars
  BY <1>1, <1>4, ListMail
<1>5. CASE SystemPart /\ UNCHANGED mountVars
  BY <1>1, <1>5, SystemMail
<1>6. CASE ScrapePart /\ UNCHANGED mountVars
  BY <1>1, <1>6, ScrapeMail
<1>7. CASE BiosPart /\ UNCHANGED mountVars
  BY <1>1, <1>7, BiosMail
<1> QED
  BY <1>2, <1>3, <1>4, <1>5, <1>6, <1>7, Parts DEF OfSystems, OfScraper, OfBios

(* Whatever devices come and go and whenever the main thread reads the device   *)
(* of a message, the interface ends up with the last change that was reported. *)
THEOREM LastChangeReportedHolds == Spec => []LastChangeReported
<1>1. Init => Typed /\ MountInv
  <2>1. Init => MountInv
    BY DEF Init, MountInit, MountInv, NoChange, NoMount
  <2> QED
    BY <2>1, InitTyped
<1>2. Typed /\ MountInv => LastChangeReported
  BY DEF Typed, MountInv, LastChangeReported, InFlight, LastMount
<1> QED
  BY <1>1, <1>2, TypedNext, MountNext, PTL DEF Spec

--------------------------------------------------------------------------------
(* The seamless scraper                                                        *)

(* What the messages of the others do to the reports of the scraper: nothing.   *)
SameStages(q, r) ==
    /\ \A g \in Games : Staged(r, g) => Staged(q, g)
    /\ \A g \in Games : Completing(r, g) => Completing(q, g)
    /\ CompletedLast(q) => CompletedLast(r)

LEMMA StagesOfTail ==
    ASSUME NEW q \in Seq(Messages), q # <<>>
    PROVE  SameStages(q, Tail(q))
<1> DEFINE r == Tail(q)
<1>1. /\ Len(r) = Len(q) - 1 /\ Len(q) \in Nat
      /\ \A i \in 1 .. Len(r) : r[i] = q[i + 1]
  OBVIOUS
<1> HIDE DEF r
<1>2. \A i \in 1 .. Len(r) : i + 1 \in 1 .. Len(q)
  BY <1>1
<1>3. \A g \in Games : Staged(r, g) => Staged(q, g)
  BY <1>1, <1>2 DEF Staged
<1>4. \A g \in Games : Completing(r, g) => Completing(q, g)
  BY <1>1, <1>2 DEF Completing
<1>5. CompletedLast(q) => CompletedLast(r)
  <2> SUFFICES ASSUME CompletedLast(q), NEW i \in 1 .. Len(r), NEW j \in 1 .. Len(r), i < j,
                      r[i].to = "scraper", r[j].to = "scraper", r[i].game = r[j].game
               PROVE  r[i].stage # "Completed"
    BY DEF CompletedLast
  <2> QED
    BY <1>1, <1>2, i + 1 < j + 1 DEF CompletedLast
<1> QED
  BY <1>3, <1>4, <1>5 DEF SameStages, r

LEMMA StagesOfOthers ==
    ASSUME NEW c, c # "scraper", NEW q \in Seq(Messages), NEW r, Mail(c, q, r)
    PROVE  SameStages(q, r)
<1>1. ASSUME NEW m \in Messages, m.to # "scraper", r = Append(q, m)
      PROVE  SameStages(q, r)
  <2>1. /\ Len(r) = Len(q) + 1 /\ Len(q) \in Nat /\ r[Len(q) + 1].to # "scraper"
        /\ \A i \in 1 .. Len(q) : r[i] = q[i]
    BY <1>1
  <2>2. \A i \in 1 .. Len(r) : r[i].to = "scraper" => i \in 1 .. Len(q)
    BY <2>1
  <2> QED
    BY <2>1, <2>2 DEF SameStages, Staged, Completing, CompletedLast
<1>2. CASE r = q
  BY <1>2 DEF SameStages
<1> QED
  BY <1>1, <1>2, StagesOfTail DEF Mail

(* One more report *)
LEMMA StagesOfAppend ==
    ASSUME NEW q \in Seq(Messages), NEW m \in Messages, m.to = "scraper",
           CompletedLast(q), ~Completing(q, m.game)
    PROVE  /\ CompletedLast(Append(q, m))
           /\ \A g \in Games : Staged(Append(q, m), g) => g = m.game \/ Staged(q, g)
           /\ \A g \in Games : Completing(Append(q, m), g) =>
                (g = m.game /\ m.stage = "Completed") \/ Completing(q, g)
<1> DEFINE r == Append(q, m)
<1>1. /\ Len(r) = Len(q) + 1 /\ Len(q) \in Nat /\ r[Len(q) + 1] = m
      /\ \A i \in 1 .. Len(q) : r[i] = q[i]
  OBVIOUS
<1> HIDE DEF r
<1>2. CompletedLast(r)
  <2> SUFFICES ASSUME NEW i \in 1 .. Len(r), NEW j \in 1 .. Len(r), i < j,
                      r[i].to = "scraper", r[j].to = "scraper", r[i].game = r[j].game
               PROVE  r[i].stage # "Completed"
    BY DEF CompletedLast
  <2>1. i \in 1 .. Len(q) /\ r[i] = q[i]
    BY <1>1
  <2>2. CASE j = Len(q) + 1
    BY <1>1, <2>1, <2>2 DEF Completing
  <2>3. CASE j # Len(q) + 1
    BY <1>1, <2>1, <2>3 DEF CompletedLast
  <2> QED
    BY <2>2, <2>3
<1>3. \A i \in 1 .. Len(r) : i = Len(q) + 1 \/ i \in 1 .. Len(q)
  BY <1>1
<1>4. \A g \in Games : Staged(r, g) => g = m.game \/ Staged(q, g)
  BY <1>1, <1>3 DEF Staged
<1>5. \A g \in Games : Completing(r, g) => (g = m.game /\ m.stage = "Completed") \/ Completing(q, g)
  BY <1>1, <1>3 DEF Completing
<1> QED
  BY <1>2, <1>4, <1>5 DEF r

(* The last report of a scrape is the last message about its game.              *)
LEMMA StagesOfHead ==
    ASSUME NEW q \in Seq(Messages), q # <<>>, CompletedLast(q), Head(q).to = "scraper"
    PROVE  /\ Staged(q, Head(q).game)
           /\ Head(q).stage = "Completed" => /\ Completing(q, Head(q).game)
                                             /\ ~Staged(Tail(q), Head(q).game)
<1> DEFINE r == Tail(q)
<1>1. /\ Len(r) = Len(q) - 1 /\ Len(q) \in Nat /\ 1 \in 1 .. Len(q) /\ Head(q) = q[1]
      /\ \A i \in 1 .. Len(r) : r[i] = q[i + 1]
  OBVIOUS
<1> HIDE DEF r
<1>2. \A i \in 1 .. Len(r) : i + 1 \in 1 .. Len(q) /\ 1 < i + 1
  BY <1>1
<1>3. Staged(q, Head(q).game) /\ (Head(q).stage = "Completed" => Completing(q, Head(q).game))
  BY <1>1 DEF Staged, Completing
<1>4. Head(q).stage = "Completed" => ~Staged(r, Head(q).game)
  BY <1>1, <1>2 DEF Staged, CompletedLast
<1> QED
  BY <1>3, <1>4 DEF r

LEMMA CompletingIsStaged == \A q, g : Completing(q, g) => Staged(q, g)
BY DEF Completing, Staged

LEMMA ScrapeOthers ==
    ASSUME Typed, ScrapeInv, UNCHANGED scrapeVars, NEW c, c # "scraper", Mail(c, posted, posted')
    PROVE  ScrapeInv'
<1>1. SameStages(posted, posted')
  BY StagesOfOthers DEF Typed
<1> QED
  BY <1>1 DEF ScrapeInv, SameStages, InHand, scrapeVars, poolVars

LEMMA ReceiveStageKeeps ==
    ASSUME Typed, ScrapeInv, ReceiveStage
    PROVE  ScrapeInv'
<1>1. /\ posted \in Seq(Messages) /\ posted # <<>> /\ Head(posted).to = "scraper" /\ posted' = Tail(posted)
      /\ UNCHANGED <<feeds, worker, feed>>
  BY DEF ReceiveStage, Receive, Typed, poolVars
<1>2. /\ Head(posted).stage = "Completed" => mRunningScrapes' = mRunningScrapes \ {Head(posted).game}
      /\ Head(posted).stage # "Completed" => mRunningScrapes' = mRunningScrapes
  BY DEF ReceiveStage, Removes
<1>3. SameStages(posted, posted')
  BY <1>1, StagesOfTail
<1>4. Head(posted).game \in Games
  <2>1. Head(posted) \in Messages
    BY <1>1
  <2> QED
    BY <1>1, <2>1 DEF Messages
<1>5. Head(posted).stage = "Completed" => /\ ~Staged(posted', Head(posted).game)
                                          /\ Completing(posted, Head(posted).game)
  BY <1>1, StagesOfHead DEF ScrapeInv
<1> QED
  BY <1>1, <1>2, <1>3, <1>4, <1>5 DEF ScrapeInv, SameStages, InHand

LEMMA PushKeeps ==
    ASSUME Typed, ScrapeInv, ScrapeCursor
    PROVE  ScrapeInv'
<1>1. /\ cursor \in Games /\ cursor \notin mRunningScrapes /\ UNCHANGED <<posted, worker, feed>>
      /\ feeds' = feeds \cup {cursor} /\ mRunningScrapes' = mRunningScrapes \cup {cursor}
  BY DEF ScrapeCursor, Push, poolVars
<1> QED
  BY <1>1, CompletingIsStaged DEF ScrapeInv, InHand

(* A worker that reports a stage of its game *)
LEMMA ReportKeeps ==
    ASSUME Typed, ScrapeInv, NEW w \in Workers, InHand(w), NEW stage \in Stages, StageCompleted(w, stage),
           UNCHANGED <<feeds, mRunningScrapes, feed>>,
           \E label \in {"downloading", "completing", "stamping"} :
               Goto(w, label) /\ (label = "stamping" <=> stage = "Completed")
    PROVE  ScrapeInv'
<1> DEFINE m == [to |-> "scraper", game |-> feed[w], stage |-> stage]
<1>1. m \in Messages /\ posted \in Seq(Messages) /\ posted' = Append(posted, m)
  BY StageIsMessage DEF Typed, StageCompleted, Post
<1>2. m.to = "scraper" /\ m.game = feed[w] /\ m.stage = stage /\ feed[w] \in Games
  BY DEF Typed, ScrapeTyped
<1>3. CompletedLast(posted) /\ ~Completing(posted, feed[w])
  BY <1>2 DEF ScrapeInv
<1> HIDE DEF m
<1>4. /\ CompletedLast(posted')
      /\ \A g \in Games : Staged(posted', g) => g = feed[w] \/ Staged(posted, g)
      /\ \A g \in Games : Completing(posted', g) => (g = feed[w] /\ stage = "Completed") \/ Completing(posted, g)
  BY <1>1, <1>2, <1>3, StagesOfAppend
<1>5. \A v \in Workers : InHand(v)' => InHand(v) /\ (v = w => stage # "Completed")
  BY DEF Goto, InHand, Typed, ScrapeTyped
<1> QED
  BY <1>2, <1>4, <1>5 DEF ScrapeInv

LEMMA ScrapeOwn ==
    ASSUME Typed, ScrapeInv, ScrapePart
    PROVE  ScrapeInv'
<1>0. ScrapeTyped
  BY DEF Typed
<1>1. ASSUME NEW w \in Workers, TakeFeed(w)
      PROVE  ScrapeInv'
  <2>1. PICK g \in feeds : feeds' = feeds \ {g} /\ feed' = [feed EXCEPT ![w] = g]
    BY <1>1 DEF TakeFeed
  <2>2. UNCHANGED <<posted, mRunningScrapes>> /\ worker' = [worker EXCEPT ![w] = "allocating"]
    BY <1>1 DEF TakeFeed, Goto
  <2>3. \A v \in Workers : v # w => feed'[v] = feed[v] /\ (InHand(v)' <=> InHand(v))
    BY <1>0, <2>1, <2>2 DEF ScrapeTyped, InHand
  <2>4. feed'[w] = g /\ g \in Games
    BY <1>0, <2>1 DEF ScrapeTyped
  <2> QED
    BY <2>1, <2>2, <2>3, <2>4 DEF ScrapeInv
<1>2. ASSUME NEW w \in Workers, AllocateEngine(w) \/ SetTimeStamp(w) \/ FreeEngine(w)
      PROVE  ScrapeInv'
  <2>1. UNCHANGED <<posted, feeds, feed, mRunningScrapes>>
    BY <1>2 DEF AllocateEngine, SetTimeStamp, FreeEngine
  <2>2. \A v \in Workers : InHand(v)' => InHand(v)
    BY <1>0, <1>2 DEF AllocateEngine, SetTimeStamp, FreeEngine, Goto, InHand, ScrapeTyped
  <2> QED
    BY <2>1, <2>2 DEF ScrapeInv
<1>3. ASSUME NEW w \in Workers, Scrape(w) \/ DownloadAndStoreMedia(w) \/ Complete(w)
      PROVE  ScrapeInv'
  <2>1. UNCHANGED <<feeds, feed, mRunningScrapes>> /\ InHand(w)
    BY <1>3 DEF Scrape, DownloadAndStoreMedia, Complete, InHand
  <2>2. CASE posted' = posted /\ Goto(w, "completing")
    <3>1. \A v \in Workers : InHand(v)' => InHand(v)
      BY <1>0, <2>1, <2>2 DEF Goto, InHand, ScrapeTyped
    <3> QED
      BY <2>1, <2>2, <3>1 DEF ScrapeInv
  <2>3. \/ posted' = posted /\ Goto(w, "completing")
        \/ StageCompleted(w, "Text") /\ Goto(w, "downloading")
        \/ StageCompleted(w, "Media") /\ Goto(w, "completing")
        \/ StageCompleted(w, "Completed") /\ Goto(w, "stamping")
    BY <1>3 DEF Scrape, DownloadAndStoreMedia, Complete, Aborts
  <2>4. CASE StageCompleted(w, "Text") /\ Goto(w, "downloading")
    BY <2>1, <2>4, ReportKeeps DEF Stages
  <2>5. CASE StageCompleted(w, "Media") /\ Goto(w, "completing")
    BY <2>1, <2>5, ReportKeeps DEF Stages
  <2>6. CASE StageCompleted(w, "Completed") /\ Goto(w, "stamping")
    BY <2>1, <2>6, ReportKeeps DEF Stages
  <2> QED
    BY <2>2, <2>3, <2>4, <2>5, <2>6
<1> QED
  BY <1>1, <1>2, <1>3, PushKeeps, ReceiveStageKeeps DEF ScrapePart, ScrapeStep, WorkerStep

LEMMA ScrapeNext == Typed /\ ScrapeInv /\ [Next]_vars => ScrapeInv'
<1> SUFFICES ASSUME Typed, ScrapeInv, [Next]_vars PROVE ScrapeInv'
  OBVIOUS
<1>1. CASE UNCHANGED <<posted, scrapeVars>>
  BY <1>1 DEF ScrapeInv, InHand, scrapeVars, poolVars
<1>2. CASE ListPart /\ UNCHANGED scrapeVars
  BY <1>2, ListMail, ScrapeOthers
<1>3. CASE SystemPart /\ UNCHANGED scrapeVars
  BY <1>3, SystemMail, ScrapeOthers
<1>4. CASE MountPart /\ UNCHANGED scrapeVars
  BY <1>4, MountMail, ScrapeOthers
<1>5. CASE BiosPart /\ UNCHANGED scrapeVars
  BY <1>5, BiosMail, ScrapeOthers
<1>6. CASE ScrapePart
  BY <1>6, ScrapeOwn
<1> QED
  BY <1>1, <1>2, <1>3, <1>4, <1>5, <1>6, Parts DEF OfSystems, OfMounts, OfBios

(* Every stage is reported to the list while its game is still in the set of    *)
(* running scrapes, for any number of games and workers.                       *)
THEOREM StagesFindTheirScrapeHolds == Spec => []StagesFindTheirScrape
<1>1. Init => Typed /\ ScrapeInv
  <2>1. Init => ScrapeInv
    BY DEF Init, ScrapeInit, ScrapeInv, InHand, Staged, Completing, CompletedLast
  <2> QED
    BY <2>1, InitTyped
<1>2. Typed /\ ScrapeInv => StagesFindTheirScrape
  <2> SUFFICES ASSUME Typed, ScrapeInv, NEW i \in DOMAIN posted, posted[i].to = "scraper"
               PROVE  posted[i].game \in mRunningScrapes
    BY DEF StagesFindTheirScrape
  <2>1. i \in 1 .. Len(posted) /\ posted[i] \in Messages
    BY DEF Typed
  <2>2. posted[i].game \in Games
    BY <2>1 DEF Messages
  <2> QED
    BY <2>1, <2>2 DEF ScrapeInv, Staged
<1> QED
  BY <1>1, <1>2, TypedNext, ScrapeNext, PTL DEF Spec

LEMMA EngineOwn ==
    ASSUME Typed, EngineInv, ScrapePart
    PROVE  EngineInv'
<1>0. ScrapeTyped
  BY DEF Typed
<1> USE DEF EngineInv, HasEngine, ScrapeTyped
<1>1. CASE ScrapeCursor \/ ReceiveStage
  BY <1>1 DEF ScrapeCursor, Push, ReceiveStage, poolVars
<1>2. ASSUME NEW w \in Workers, \/ TakeFeed(w) \/ Scrape(w) \/ DownloadAndStoreMedia(w)
                                \/ Complete(w) \/ SetTimeStamp(w)
      PROVE  EngineInv'
  <2>1. UNCHANGED <<mBusyEngines, engine>>
    BY <1>2 DEF TakeFeed, Scrape, DownloadAndStoreMedia, Complete, SetTimeStamp
  <2>2. \A v \in Workers : HasEngine(v)' <=> HasEngine(v)
    BY <1>0, <1>2 DEF TakeFeed, Scrape, DownloadAndStoreMedia, Complete, SetTimeStamp, Aborts, Goto
  <2> QED
    BY <2>1, <2>2
<1>3. ASSUME NEW w \in Workers, AllocateEngine(w)
      PROVE  EngineInv'
  <2>1. CASE Engines \subseteq mBusyEngines
    <3>1. UNCHANGED <<mBusyEngines, engine>> /\ worker' = [worker EXCEPT ![w] = "idle"] /\ worker[w] = "allocating"
      BY <1>3, <2>1 DEF AllocateEngine, Goto
    <3>2. \A v \in Workers : HasEngine(v)' <=> HasEngine(v)
      BY <1>0, <3>1
    <3> QED
      BY <3>1, <3>2
  <2>2. CASE ~(Engines \subseteq mBusyEngines)
    <3>1. PICK e \in Engines \ mBusyEngines : /\ engine' = [engine EXCEPT ![w] = e]
                                              /\ mBusyEngines' = mBusyEngines \cup {e}
                                              /\ worker' = [worker EXCEPT ![w] = "scraping"]
                                              /\ worker[w] = "allocating"
      BY <1>3, <2>2 DEF AllocateEngine, Goto
    <3>2. \A v \in Workers : v # w => (HasEngine(v)' <=> HasEngine(v)) /\ engine'[v] = engine[v]
      BY <1>0, <3>1
    <3>3. HasEngine(w)' /\ ~HasEngine(w) /\ engine'[w] = e
      BY <1>0, <3>1
    <3>4. \A v \in Workers : HasEngine(v) => engine[v] \in mBusyEngines
      OBVIOUS
    <3>5. mBusyEngines' = {engine'[v] : v \in {u \in Workers : HasEngine(u)'}}
      BY <3>1, <3>2, <3>3
    <3> QED
      BY <3>1, <3>2, <3>3, <3>4, <3>5
  <2> QED
    BY <2>1, <2>2
<1>4. ASSUME NEW w \in Workers, FreeEngine(w)
      PROVE  EngineInv'
  <2>1. /\ mBusyEngines' = mBusyEngines \ {engine[w]} /\ engine' = engine
        /\ worker' = [worker EXCEPT ![w] = "idle"] /\ HasEngine(w)
    BY <1>4 DEF FreeEngine, BusyWithout, Goto
  <2>2. \A v \in Workers : HasEngine(v)' <=> HasEngine(v) /\ v # w
    BY <1>0, <2>1
  <2>3. mBusyEngines' = {engine'[v] : v \in {u \in Workers : HasEngine(u)'}}
    BY <2>1, <2>2
  <2> QED
    BY <2>1, <2>2, <2>3
<1> QED
  BY <1>1, <1>2, <1>3, <1>4 DEF ScrapePart, ScrapeStep, WorkerStep

LEMMA EngineNext == Typed /\ EngineInv /\ [Next]_vars => EngineInv'
<1> SUFFICES ASSUME Typed, EngineInv, [Next]_vars PROVE EngineInv'
  OBVIOUS
<1>1. CASE UNCHANGED scrapeVars
  BY <1>1 DEF EngineInv, HasEngine, scrapeVars, poolVars
<1>2. CASE ScrapePart
  BY <1>2, EngineOwn
<1> QED
  BY <1>1, <1>2, Parts DEF OfSystems, OfMounts, OfBios

(* There are as many engines as workers, and a worker that looks for one has    *)
(* none itself.                                                                *)
LEMMA EngineInvFrees == EngineInv => EngineIsFree
<1> SUFFICES ASSUME EngineInv, NEW w \in Workers, worker[w] = "allocating", Engines \subseteq mBusyEngines
             PROVE  FALSE
  BY DEF EngineIsFree
<1> DEFINE B == {v \in Workers : HasEngine(v)}
           f == [v \in B |-> engine[v]]
<1>1. IsFiniteSet(Workers \ {w}) /\ Cardinality(Workers \ {w}) = Cardinality(Workers) - 1
      /\ Cardinality(Workers) \in Nat
  BY WorkersAssumption, FS_RemoveElement, FS_CardinalityType
<1>2. B \in SUBSET (Workers \ {w})
  BY DEF HasEngine
<1>3. IsFiniteSet(B) /\ Cardinality(B) <= Cardinality(Workers) - 1 /\ Cardinality(B) \in Nat
  BY <1>1, <1>2, FS_Subset, FS_CardinalityType
<1>4. f \in Surjection(B, mBusyEngines)
  BY DEF EngineInv, Surjection
<1>5. IsFiniteSet(mBusyEngines) /\ Cardinality(mBusyEngines) <= Cardinality(B) /\ Cardinality(mBusyEngines) \in Nat
  BY <1>3, <1>4, FS_Surjection, FS_CardinalityType
<1>6. Cardinality(Engines) = Cardinality(Workers)
  BY <1>1, FS_Interval DEF Engines
<1>7. Cardinality(Engines) <= Cardinality(mBusyEngines)
  BY <1>5, FS_Subset
<1> QED
  BY <1>1, <1>3, <1>5, <1>6, <1>7

(* No game is given up: a worker that has taken one finds an engine that is     *)
(* free, whatever became of the scrapes before.                                *)
THEOREM EngineIsFreeHolds == Spec => []EngineIsFree
<1>1. Init => EngineInv
  BY DEF Init, ScrapeInit, EngineInv, HasEngine
<1> QED
  BY <1>1, InitTyped, TypedNext, EngineNext, EngineInvFrees, PTL DEF Spec

--------------------------------------------------------------------------------
(* What holds of the whole queue about its next messages holds of its tail. *)
LEMMA GoesOnOfTail ==
    ASSUME NEW q, NEW r, Len(q) \in Nat \ {0}, Len(r) = Len(q) - 1,
           \A i \in 1 .. Len(r) : r[i] = q[i + 1] /\ i + 1 \in 1 .. Len(q),
           GoesOn(q)
    PROVE  GoesOn(r)
<1> SUFFICES ASSUME NEW i \in 1 .. Len(r), NEW j \in 1 .. Len(r), i < j, Told(r[i]), Told(r[j]),
                    \A k \in i + 1 .. j - 1 : ~Told(r[k])
             PROVE  r[j].index = After(r[i].index)
  BY DEF GoesOn
<1>1. ASSUME NEW k \in (i + 1) + 1 .. (j + 1) - 1 PROVE ~Told(q[k])
  <2>1. k - 1 \in 1 .. Len(r) /\ k - 1 \in i + 1 .. j - 1 /\ (k - 1) + 1 = k
    OBVIOUS
  <2>2. q[k] = r[k - 1]
    BY <2>1
  <2> QED
    BY <2>1, <2>2
<1>2. /\ i + 1 \in 1 .. Len(q) /\ q[i + 1] = r[i]
      /\ j + 1 \in 1 .. Len(q) /\ q[j + 1] = r[j] /\ i + 1 < j + 1
  OBVIOUS
<1>3. Told(q[i + 1]) /\ Told(q[j + 1])
  BY <1>2
<1> QED
  BY <1>1, <1>2, <1>3 DEF GoesOn

LEMMA EndsOfTail ==
    ASSUME NEW q, NEW r, NEW last, Len(q) \in Nat \ {0}, Len(r) = Len(q) - 1,
           \A i \in 1 .. Len(r) : r[i] = q[i + 1] /\ i + 1 \in 1 .. Len(q),
           Ends(q, last)
    PROVE  Ends(r, last)
<1> SUFFICES ASSUME NEW i \in 1 .. Len(r), Told(r[i]), \A k \in i + 1 .. Len(r) : ~Told(r[k])
             PROVE  r[i].index = last
  BY DEF Ends
<1>1. ASSUME NEW k \in (i + 1) + 1 .. Len(q) PROVE ~Told(q[k])
  <2>1. k - 1 \in 1 .. Len(r) /\ k - 1 \in i + 1 .. Len(r) /\ (k - 1) + 1 = k
    OBVIOUS
  <2>2. q[k] = r[k - 1]
    BY <2>1
  <2> QED
    BY <2>1, <2>2
<1>2. i + 1 \in 1 .. Len(q) /\ q[i + 1] = r[i]
  OBVIOUS
<1>3. Told(q[i + 1])
  BY <1>2
<1> QED
  BY <1>1, <1>2, <1>3 DEF Ends

(* A message that no window is told of comes or goes.                          *)
LEMMA ChainOfSilence ==
    ASSUME NEW q \in Seq(Messages), NEW r, NEW first, NEW last, Chain(q, first, last),
           \/ r = q
           \/ \E m \in Messages : ~Told(m) /\ r = Append(q, m)
           \/ q # <<>> /\ ~Told(Head(q)) /\ r = Tail(q)
    PROVE  Chain(r, first, last) /\ (Over(r) => Over(q))
<1>0. Starts(q, first) /\ GoesOn(q) /\ Ends(q, last) /\ (TellsNothing(q) => first = last)
  BY DEF Chain
<1>1. ASSUME NEW m \in Messages, ~Told(m), r = Append(q, m)
      PROVE  Chain(r, first, last) /\ (Over(r) => Over(q))
  <2>1. /\ Len(r) = Len(q) + 1 /\ Len(q) \in Nat /\ ~Told(r[Len(q) + 1])
        /\ \A i \in 1 .. Len(q) : r[i] = q[i]
    BY <1>1
  <2>2. \A i \in 1 .. Len(r) : Told(r[i]) => i \in 1 .. Len(q)
    BY <2>1
  <2> HIDE DEF Told
  <2>3. Starts(r, first)
    BY <1>0, <2>1, <2>2 DEF Starts
  <2>4. GoesOn(r)
    <3> SUFFICES ASSUME NEW i \in 1 .. Len(r), NEW j \in 1 .. Len(r), i < j, Told(r[i]), Told(r[j]),
                        \A k \in i + 1 .. j - 1 : ~Told(r[k])
                 PROVE  r[j].index = After(r[i].index)
      BY DEF GoesOn
    <3>1. i \in 1 .. Len(q) /\ j \in 1 .. Len(q) /\ q[i] = r[i] /\ q[j] = r[j]
      BY <2>1, <2>2
    <3>2. \A k \in i + 1 .. j - 1 : ~Told(q[k])
      BY <2>1, <3>1
    <3> QED
      BY <1>0, <3>1, <3>2 DEF GoesOn
  <2>5. Ends(r, last)
    BY <1>0, <2>1, <2>2 DEF Ends
  <2>6. TellsNothing(r) => TellsNothing(q)
    BY <2>1 DEF TellsNothing
  <2>7. Over(r) => Over(q)
    BY <2>1, <2>2 DEF Over
  <2> QED
    BY <1>0, <2>3, <2>4, <2>5, <2>6, <2>7 DEF Chain
<1>2. ASSUME q # <<>>, ~Told(Head(q)), r = Tail(q)
      PROVE  Chain(r, first, last) /\ (Over(r) => Over(q))
  <2>1. /\ Len(q) \in Nat \ {0} /\ Len(r) = Len(q) - 1 /\ ~Told(q[1])
        /\ \A i \in 1 .. Len(r) : r[i] = q[i + 1] /\ i + 1 \in 1 .. Len(q)
        /\ \A i \in 2 .. Len(q) : q[i] = r[i - 1] /\ i - 1 \in 1 .. Len(r)
    BY <1>2
  <2> HIDE DEF Told
  <2>2. ASSUME NEW i \in 1 .. Len(r), Told(r[i]), \A k \in 1 .. i - 1 : ~Told(r[k])
        PROVE  r[i].index = After(first)
    <3>1. ASSUME NEW k \in 1 .. (i + 1) - 1 PROVE ~Told(q[k])
      <4>1. k = 1 \/ (k \in 2 .. Len(q) /\ k - 1 \in 1 .. i - 1)
        BY <2>1
      <4> QED
        BY <2>1, <2>2, <4>1
    <3>2. i + 1 \in 1 .. Len(q) /\ q[i + 1] = r[i]
      BY <2>1
    <3> QED
      BY <1>0, <2>2, <3>1, <3>2 DEF Starts
  <2>3. GoesOn(r)
    BY <1>0, <2>1, GoesOnOfTail
  <2>4. Ends(r, last)
    BY <1>0, <2>1, EndsOfTail
  <2>5. TellsNothing(r) => TellsNothing(q)
    <3>1. ASSUME \A i \in 1 .. Len(r) : ~Told(r[i]) PROVE \A i \in 1 .. Len(q) : ~Told(q[i])
      BY <2>1, <3>1
    <3> QED
      BY <3>1 DEF TellsNothing
  <2>6. Starts(r, first)
    BY <2>2 DEF Starts
  <2>7. Over(r) => Over(q)
    BY <2>1 DEF Over
  <2> QED
    BY <1>0, <2>3, <2>4, <2>5, <2>6, <2>7 DEF Chain
<1>3. CASE r = q
  BY <1>3
<1> QED
  BY <1>1, <1>2, <1>3

(* The scanning thread tells the window of the next bios.                      *)
LEMMA ChainOfAppend ==
    ASSUME NEW q \in Seq(Messages), NEW m \in Messages, Told(m),
           NEW first, NEW last, Chain(q, first, last), m.index = After(last)
    PROVE  /\ Chain(Append(q, m), first, m.index)
           /\ Over(Append(q, m)) => Over(q) \/ m.index = 0
<1> DEFINE r == Append(q, m)
<1>0. Starts(q, first) /\ GoesOn(q) /\ Ends(q, last) /\ (TellsNothing(q) => first = last)
  BY DEF Chain
<1>1. /\ Len(r) = Len(q) + 1 /\ Len(q) \in Nat /\ r[Len(q) + 1] = m
      /\ \A i \in 1 .. Len(q) : r[i] = q[i]
  OBVIOUS
<1> HIDE DEF r, Told
<1>2. \A i \in 1 .. Len(r) : i = Len(q) + 1 \/ i \in 1 .. Len(q)
  BY <1>1
<1>3. ASSUME NEW i \in 1 .. Len(r), Told(r[i]), \A k \in 1 .. i - 1 : ~Told(r[k])
      PROVE  r[i].index = After(first)
  <2>1. CASE i \in 1 .. Len(q)
    BY <1>0, <1>1, <1>3, <2>1 DEF Starts
  <2>2. CASE i = Len(q) + 1
    <3>1. TellsNothing(q)
      BY <1>1, <1>3, <2>2 DEF TellsNothing
    <3> QED
      BY <1>0, <1>1, <2>2, <3>1
  <2> QED
    BY <1>2, <2>1, <2>2
<1>4. ASSUME NEW i \in 1 .. Len(r), NEW j \in 1 .. Len(r), i < j, Told(r[i]), Told(r[j]),
             \A k \in i + 1 .. j - 1 : ~Told(r[k])
      PROVE  r[j].index = After(r[i].index)
  <2>0. i \in 1 .. Len(q) /\ q[i] = r[i]
    BY <1>1, <1>2, <1>4
  <2>1. CASE j \in 1 .. Len(q)
    <3>1. q[j] = r[j] /\ \A k \in i + 1 .. j - 1 : ~Told(q[k])
      BY <1>1, <1>4, <2>0, <2>1
    <3> QED
      BY <1>0, <1>4, <2>0, <2>1, <3>1 DEF GoesOn
  <2>2. CASE j = Len(q) + 1
    <3>1. \A k \in i + 1 .. Len(q) : ~Told(q[k])
      BY <1>1, <1>4, <2>2
    <3>2. q[i].index = last
      BY <1>0, <1>4, <2>0, <3>1 DEF Ends
    <3> QED
      BY <1>1, <2>0, <2>2, <3>2
  <2> QED
    BY <1>2, <2>1, <2>2
<1>5. ASSUME NEW i \in 1 .. Len(r), Told(r[i]), \A k \in i + 1 .. Len(r) : ~Told(r[k])
      PROVE  r[i].index = m.index
  BY <1>1, <1>2, <1>5
<1>6. ~TellsNothing(r)
  BY <1>1, Len(q) + 1 \in 1 .. Len(r) DEF TellsNothing
<1>7. Over(r) => Over(q) \/ m.index = 0
  BY <1>1, <1>2 DEF Over
<1>8. Starts(r, first)
  BY <1>3 DEF Starts
<1>9. GoesOn(r)
  BY <1>4 DEF GoesOn
<1>10. Ends(r, m.index)
  BY <1>5 DEF Ends
<1>11. Chain(r, first, m.index)
  BY <1>6, <1>8, <1>9, <1>10 DEF Chain
<1> QED
  BY <1>7, <1>11 DEF r

(* The main thread takes what a window is told.                                *)
LEMMA ChainOfTail ==
    ASSUME NEW q \in Seq(Messages), q # <<>>, Told(Head(q)),
           NEW first, NEW last, Chain(q, first, last)
    PROVE  /\ Head(q).index = After(first)
           /\ Chain(Tail(q), Head(q).index, last)
           /\ Over(Tail(q)) => Over(q)
           /\ Head(q).index = 0 => Over(q)
<1> DEFINE r == Tail(q)
<1>0. Starts(q, first) /\ GoesOn(q) /\ Ends(q, last)
  BY DEF Chain
<1>1. /\ Len(q) \in Nat \ {0} /\ Len(r) = Len(q) - 1 /\ Head(q) = q[1] /\ 1 \in 1 .. Len(q)
      /\ \A i \in 1 .. Len(r) : r[i] = q[i + 1] /\ i + 1 \in 1 .. Len(q)
      /\ \A i \in 2 .. Len(q) : q[i] = r[i - 1] /\ i - 1 \in 1 .. Len(r)
  OBVIOUS
<1> HIDE DEF r, Told
<1>2. ASSUME NEW i \in 1 .. Len(r), Told(r[i]), \A k \in 1 .. i - 1 : ~Told(r[k])
      PROVE  r[i].index = After(Head(q).index)
  <2>1. ASSUME NEW k \in 1 + 1 .. (i + 1) - 1 PROVE ~Told(q[k])
    <3>1. k \in 2 .. Len(q) /\ k - 1 \in 1 .. i - 1
      BY <1>1
    <3> QED
      BY <1>1, <1>2, <3>1
  <2>2. i + 1 \in 1 .. Len(q) /\ q[i + 1] = r[i] /\ 1 < i + 1
    BY <1>1
  <2>3. Told(q[1]) /\ Told(q[i + 1])
    BY <1>1, <1>2, <2>2
  <2>4. q[i + 1].index = After(q[1].index)
    BY <1>0, <1>1, <2>1, <2>2, <2>3 DEF GoesOn
  <2> QED
    BY <1>1, <2>2, <2>4
<1>3. GoesOn(r)
  BY <1>0, <1>1, GoesOnOfTail
<1>4. Ends(r, last)
  BY <1>0, <1>1, EndsOfTail
<1>5. TellsNothing(r) => Head(q).index = last
  <2>1. ASSUME TellsNothing(r), NEW k \in 1 + 1 .. Len(q) PROVE ~Told(q[k])
    BY <1>1, <2>1 DEF TellsNothing
  <2>2. TellsNothing(r) => \A k \in 1 + 1 .. Len(q) : ~Told(q[k])
    BY <2>1
  <2>3. Told(q[1])
    BY <1>1
  <2> QED
    BY <1>0, <1>1, <2>2, <2>3 DEF Ends
<1>6. Head(q).index = After(first)
  BY <1>0, <1>1, \A k \in 1 .. 1 - 1 : ~Told(q[k]) DEF Starts
<1>7. (Over(r) => Over(q)) /\ (Head(q).index = 0 => Over(q))
  BY <1>1 DEF Over
<1>8. Starts(r, Head(q).index)
  BY <1>2 DEF Starts
<1>9. Chain(r, Head(q).index, last)
  BY <1>3, <1>4, <1>5, <1>8 DEF Chain
<1> QED
  BY <1>6, <1>7, <1>9 DEF r

(* The other components *)
LEMMA ScanOthers ==
    ASSUME Typed, ScanInv, UNCHANGED <<main, biosVars>>, NEW c, c # "bios", Mail(c, posted, posted')
    PROVE  ScanInv'
<1>1. Chain(posted', Given, Sent) /\ (Over(posted') => Over(posted))
  <2>1. \A m : m.to = c => ~Told(m)
    BY DEF Told
  <2> QED
    BY <2>1, ChainOfSilence DEF Typed, Mail, ScanInv, OrderInv
<1> QED
  BY <1>1 DEF ScanInv, LockInv, OrderInv, ReportInv, Given, Sent, Handled, ToWindow, biosVars

(* Steps of the bios manager that send nothing and receive nothing *)
LEMMA ScanQuiet ==
    ASSUME Typed, ScanInv, UNCHANGED posted, LockInv', Given' = Given, Sent' = Sent,
           main' = "completing" => main = "completing" /\ UNCHANGED message,
           main' = "progressing" => main = "progressing" /\ UNCHANGED message,
           Handled' => Handled /\ UNCHANGED shown,
           report \/ mLocker = "scanner" => report' \/ mLocker' = "scanner"
    PROVE  ScanInv'
BY DEF ScanInv, OrderInv, ReportInv, Handled, ToWindow

LEMMA UserKeeps == Typed /\ ScanInv /\ BiosUser => ScanInv'
<1> SUFFICES ASSUME Typed, ScanInv, BiosUser PROVE ScanInv'
  OBVIOUS
<1>1. LockInv
  BY DEF ScanInv
<1>2. CASE OpenWindow \/ CloseWindow \/ StartRescan
  BY <1>1, <1>2, ScanQuiet
     DEF OpenWindow, CloseWindow, StartRescan, LockInv, Given, Sent, Handled, ToWindow
<1>3. CASE WebScan
  BY <1>1, <1>3, ScanQuiet DEF WebScan, Free, LockInv, Given, Sent, Handled, ToWindow
<1> QED
  BY <1>2, <1>3 DEF BiosUser

(* The main thread *)
LEMMA MainKeeps == Typed /\ ScanInv /\ BiosOnMain => ScanInv'
<1> SUFFICES ASSUME Typed, ScanInv, BiosOnMain PROVE ScanInv'
  OBVIOUS
<1>1. LockInv /\ OrderInv /\ posted \in Seq(Messages)
  BY DEF ScanInv, Typed
<1>2. CASE Scan
  BY <1>1, <1>2, ScanQuiet DEF Scan, Free, LockInv, Given, Sent, Handled, ToWindow
<1>3. CASE ReceiveBios
  <2>1. /\ main = "loop" /\ posted # <<>> /\ Head(posted).to = "bios" /\ posted' = Tail(posted)
        /\ message' = Head(posted)
        /\ main' = IF message'.index = 0 THEN "completing" ELSE "progressing"
        /\ UNCHANGED <<mLocker, mIsRunning, scanner, run, scanned, mReporting, shown, report>>
    BY <1>3 DEF ReceiveBios, Receive
  <2>2. LockInv' /\ Sent' = Sent /\ Given = shown
    BY <1>1, <2>1 DEF LockInv, Sent, Given, Handled
  <2>3. CASE Told(Head(posted))
    <3>1. Handled' /\ Given' = message'.index
      BY <2>1, <2>3 DEF Told, Handled, Given, ToWindow
    <3>2. /\ message'.index = After(shown)
          /\ Chain(posted', message'.index, Sent)
          /\ Over(posted') => Over(posted)
          /\ message'.index = 0 => Over(posted)
      BY <1>1, <2>1, <2>2, <2>3, ChainOfTail DEF OrderInv
    <3>3. OrderInv'
      BY <2>1, <2>2, <3>1, <3>2 DEF OrderInv, After
    <3>4. ReportInv'
      BY <2>1, <3>2 DEF ScanInv, ReportInv
    <3> QED
      BY <2>2, <3>3, <3>4 DEF ScanInv
  <2>4. CASE ~Told(Head(posted))
    <3>1. ~Handled' /\ ~ToWindow' /\ Given' = shown
      BY <2>1, <2>4 DEF Told, Handled, Given, ToWindow
    <3>2. Chain(posted', shown, Sent) /\ (Over(posted') => Over(posted))
      BY <1>1, <2>1, <2>2, <2>4, ChainOfSilence DEF OrderInv
    <3>3. OrderInv'
      BY <2>1, <2>2, <3>1, <3>2 DEF OrderInv
    <3>4. ReportInv'
      BY <2>1, <3>1, <3>2 DEF ScanInv, ReportInv
    <3> QED
      BY <2>2, <3>3, <3>4 DEF ScanInv
  <2> QED
    BY <2>3, <2>4
<1>4. CASE ScanProgress
  BY <1>1, <1>4, ScanQuiet DEF ScanProgress, LockInv, Given, Sent, Handled, ToWindow
<1>5. CASE ScanComplete
  <2>1. /\ main = "completing" /\ mLocker = "nobody" /\ main' = "joining" /\ mLocker' = "main"
        /\ shown' = (IF message.window = NoWindow THEN shown ELSE 0)
        /\ UNCHANGED <<posted, scanner, run, scanned, mReporting, message, report>>
    BY <1>5 DEF ScanComplete, HandlerGoesOn, Free, StopThread
  <2>2. LockInv' /\ Sent' = Sent
    BY <1>1, <2>1 DEF LockInv, Sent
  <2>3. Given' = Given /\ ~Handled'
    BY <1>1, <2>1 DEF OrderInv, Given, Handled, ToWindow
  <2>4. report \/ mLocker = "scanner" => report' \/ mLocker' = "scanner"
    BY <2>1
  <2> QED
    BY <2>1, <2>2, <2>3, <2>4, ScanQuiet
<1>6. CASE Join
  BY <1>1, <1>6, ScanQuiet DEF Join, LockInv, Given, Sent, Handled, ToWindow
<1> QED
  BY <1>2, <1>3, <1>4, <1>5, <1>6 DEF BiosOnMain

(* A message of the scanning thread, or of the web server *)
LEMMA SendKeeps ==
    ASSUME Typed, ScanInv, NEW index \in Nat, Send(index), LockInv', run = "scanning",
           UNCHANGED <<main, mLocker, message, shown, report>>,
           mLocker = "scanner" /\ mReporting # NoWindow => index = After(scanned) /\ Sent' = index,
           mLocker = "web" \/ mReporting = NoWindow => Sent' = Sent
    PROVE  ScanInv'
<1> DEFINE m == [to |-> "bios", window |-> mReporting, index |-> index]
<1>1. posted \in Seq(Messages) /\ m \in Messages /\ posted' = Append(posted, m)
  BY DEF Typed, BiosTyped, Messages, Send, Post
<1>2. m.index = index /\ (Told(m) <=> mReporting # NoWindow)
  BY DEF Told
<1>3. LockInv /\ OrderInv /\ mLocker \in {"scanner", "web"} /\ Given' = Given /\ (Handled' <=> Handled)
  BY DEF ScanInv, LockInv, Given, Handled, ToWindow
<1> HIDE DEF m
<1>4. CASE Told(m)
  <2>1. mLocker = "scanner" /\ mReporting # NoWindow /\ Sent = scanned
    BY <1>2, <1>3, <1>4 DEF LockInv, Sent
  <2>2. Chain(posted', Given, m.index)
    BY <1>1, <1>2, <1>3, <1>4, <2>1, ChainOfAppend DEF OrderInv
  <2>3. OrderInv'
    BY <1>2, <1>3, <2>1, <2>2 DEF OrderInv
  <2>4. ReportInv'
    BY <2>1 DEF ReportInv
  <2> QED
    BY <2>3, <2>4 DEF ScanInv
<1>5. CASE ~Told(m)
  <2>1. Chain(posted', Given, Sent) /\ (Over(posted') => Over(posted)) /\ Sent' = Sent
    BY <1>1, <1>2, <1>3, <1>5, ChainOfSilence DEF OrderInv
  <2>2. OrderInv'
    BY <1>3, <2>1 DEF OrderInv
  <2>3. ReportInv'
    BY <2>1 DEF ScanInv, ReportInv, ToWindow
  <2> QED
    BY <2>2, <2>3 DEF ScanInv
<1> QED
  BY <1>4, <1>5

LEMMA RunKeeps == Typed /\ ScanInv /\ ScannerStep => ScanInv'
<1> SUFFICES ASSUME Typed, ScanInv, ScannerStep PROVE ScanInv'
  OBVIOUS
<1>1. LockInv /\ scanned \in Nat /\ Bios \in Nat
  BY BiosAssumption DEF ScanInv, Typed, BiosTyped
<1>2. CASE LockAndScan
  BY <1>1, <1>2, ScanQuiet DEF LockAndScan, Free, LockInv, Given, Sent, Handled, ToWindow
<1>3. CASE ScanAt /\ mIsRunning
  <2>1. /\ Send(scanned + 1) /\ scanned' = scanned + 1 /\ run = "scanning" /\ scanned < Bios
        /\ UNCHANGED <<main, mLocker, mIsRunning, mReporting, run, scanner, message, shown, report>>
    BY <1>3 DEF ScanAt
  <2>2. LockInv'
    BY <1>1, <2>1 DEF LockInv
  <2>3. scanned + 1 \in Nat /\ scanned + 1 = After(scanned)
    BY <1>1, <2>1 DEF After
  <2>4. mLocker = "scanner" /\ mReporting # NoWindow => Sent' = scanned + 1
    BY <2>1 DEF Sent
  <2>5. mLocker = "web" \/ mReporting = NoWindow => Sent' = Sent
    BY <2>1 DEF Sent
  <2> QED
    BY <2>1, <2>2, <2>3, <2>4, <2>5, SendKeeps
<1>4. CASE ScanAt /\ ~mIsRunning
  <2>1. mLocker = "web"
    BY <1>1, <1>4 DEF ScanAt, LockInv
  <2> QED
    BY <1>1, <1>4, <2>1, ScanQuiet DEF ScanAt, Leave, LockInv, Given, Sent, Handled, ToWindow
<1>5. CASE EndScan
  <2>1. /\ Send(0) /\ run = "scanning" /\ run' = "reporting" /\ scanned = Bios /\ mReporting' = NoWindow
        /\ UNCHANGED <<main, mLocker, mIsRunning, scanner, message, shown, report>>
    BY <1>5 DEF EndScan
  <2>2. LockInv' /\ Sent' = 0
    BY <1>1, <2>1 DEF LockInv, Sent
  <2>3. 0 \in Nat /\ 0 = After(scanned)
    BY <2>1 DEF After
  <2>4. mLocker = "web" \/ mReporting = NoWindow => Sent' = Sent
    BY <2>2 DEF Sent
  <2> QED
    BY <2>1, <2>2, <2>3, <2>4, SendKeeps
<1>6. CASE GenerateReport
  <2>1. mLocker = "scanner" => report'
    BY <1>1, <1>6 DEF GenerateReport, LockInv
  <2> QED
    BY <1>1, <1>6, <2>1, ScanQuiet DEF GenerateReport, Leave, LockInv, Given, Sent, Handled, ToWindow
<1>7. CASE EndThread
  BY <1>1, <1>7, ScanQuiet DEF EndThread, LockInv, Given, Sent, Handled, ToWindow
<1> QED
  BY <1>2, <1>3, <1>4, <1>5, <1>6, <1>7 DEF ScannerStep, ScanAt

LEMMA ScanNext == Typed /\ ScanInv /\ [Next]_vars => ScanInv'
<1> SUFFICES ASSUME Typed, ScanInv, [Next]_vars PROVE ScanInv'
  OBVIOUS
<1>1. CASE UNCHANGED <<main, posted, biosVars>>
  BY <1>1 DEF ScanInv, LockInv, OrderInv, ReportInv, Given, Sent, Handled, ToWindow, biosVars
<1>2. CASE BiosPart
  BY <1>2, UserKeeps, MainKeeps, RunKeeps DEF BiosPart, BiosStep
<1>3. CASE ListPart /\ UNCHANGED biosVars
  BY <1>3, ListMail, ScanOthers
<1>4. CASE SystemPart /\ UNCHANGED biosVars
  BY <1>4, SystemMail, ScanOthers
<1>5. CASE MountPart /\ UNCHANGED biosVars
  BY <1>5, MountMail, ScanOthers
<1>6. CASE ScrapePart /\ UNCHANGED biosVars
  BY <1>6, ScrapeMail, ScanOthers
<1> QED
  BY <1>1, <1>2, <1>3, <1>4, <1>5, <1>6, Parts DEF OfSystems, OfMounts, OfScraper

(* A handler that calls a window goes on with the next bios, or when all were   *)
(* told and the report is written.                                             *)
LEMMA HandlerIsWhole ==
    ASSUME Typed, ScanInv, [Next]_vars, main' # main, ToWindow
    PROVE  /\ main = "progressing" => shown' = shown + 1
           /\ main = "completing" => shown = Bios /\ report
<1>1. CASE main \in {"progressing", "completing"}
  <2>1. BiosPart
    BY Parts, ListMail, SystemMail, MountMail, ScrapeMail
  <2>2. ScanProgress \/ ScanComplete
    BY <1>1, <2>1 DEF BiosPart, BiosStep, BiosUser, BiosOnMain, ScannerStep, OpenWindow, CloseWindow,
              StartRescan, WebScan, Scan, ReceiveBios, Receive, Join, LockAndScan, ScanAt, EndScan,
              GenerateReport, EndThread
  <2>3. message.index = After(shown) /\ shown \in Nat
    BY <1>1 DEF ScanInv, OrderInv, Handled, Typed, BiosTyped
  <2>4. CASE main = "progressing"
    BY <2>2, <2>3, <2>4 DEF ScanProgress, ScanComplete, ScanInv, OrderInv, After, ToWindow
  <2>5. CASE main = "completing"
    <3>1. mLocker = "nobody"
      BY <2>2, <2>5 DEF ScanProgress, ScanComplete, HandlerGoesOn, Free
    <3>2. report
      BY <2>5, <3>1 DEF ScanInv, ReportInv
    <3>3. shown = Bios
      BY <2>3, <2>5 DEF ScanInv, OrderInv, After
    <3> QED
      BY <2>5, <3>2, <3>3
  <2> QED
    BY <1>1, <2>4, <2>5
<1> QED
  BY <1>1

(* Windows are told of all bios in their order, and of the end of a scan when    *)
(* its report is written: for any number of bios and windows, whoever closes    *)
(* them in mid-scan or scans for the web, and whatever else the main thread is   *)
(* told meanwhile (BiosManager::Run and ReceiveSyncMessage).                    *)
THEOREM ScanIsWholeHolds == Spec => ScanIsWhole
<1>1. Init => ScanInv
  BY DEF Init, BiosInit, ScanInv, LockInv, OrderInv, ReportInv, Chain, Starts, GoesOn, Ends,
        TellsNothing, Over, Given, Sent, Handled
<1>2. Typed /\ ScanInv /\ [Next]_vars
        => [/\ main = "progressing" /\ main' # main /\ ToWindow => shown' = shown + 1
            /\ main = "completing" /\ main' # main /\ ToWindow => shown = Bios /\ report]_<<main, biosVars>>
  BY HandlerIsWhole
<1> QED
  BY <1>1, <1>2, ScanNext, InitTyped, TypedNext, PTL DEF Spec, ScanIsWhole
================================================================================
