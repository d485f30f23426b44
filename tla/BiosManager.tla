------------------------------- MODULE BiosManager -------------------------------
(* BiosManager: a thread scans all bios and reports to the window that asked.  *)
(* Its mLocker is recursive, is held for the whole scan, and is taken by every *)
(* handler. GuiBiosScan is the window; the web server scans in a thread of its *)
(* own, with no window. Windows come and go, and one may get the address of an *)
(* earlier one. Calling one that is gone is undefined; here, nothing is seen   *)
(* of it.                                                                      *)
EXTENDS EventQueue

CONSTANTS
    Bios,        \* how many there are
    Windows,     \* bound: the addresses of windows
    NoWindow     \* nullptr

VARIABLES
    mLocker,            \* who holds it: "nobody", "main", "scanner" or "web"
    mIsRunning,         \* Thread::mIsRunning
    scanner,            \* where the scanning thread is
    run,                \* where Run is, in the thread that holds mLocker
    scanned,            \* how many bios it has scanned
    mReporting,         \* the window to report to
    message,            \* the message that is handled
    window,             \* the open window
    mScanInProgress,    \* of the open window
    shown,              \* history: the bios that was reported last, 0 after a scan
    report,             \* history: was the report written since the thread's last scan began?
    disturbed           \* history: was a window closed in its scan, or did the web scan?

biosVars == <<mLocker, mIsRunning, scanner, run, scanned, mReporting, message, window,
              mScanInProgress, shown, report, disturbed>>

(* The window of the scan is open. *)
BiosInit ==
    /\ mLocker = "nobody" /\ mIsRunning = FALSE /\ scanner = "none"
    /\ run = "none" /\ scanned = 0
    /\ mReporting = NoWindow /\ message = [to |-> "bios", window |-> NoWindow, index |-> 0]
    /\ window \in Windows
    /\ mScanInProgress = FALSE /\ shown = 0 /\ report = FALSE /\ disturbed = FALSE

Free == mLocker = "nobody"

(* Bios are numbered from 1, and 0 marks the last message. *)
Send(index) == Post([to |-> "bios", window |-> mReporting, index |-> index])

--------------------------------------------------------------------------------
(* Users *)

OpenWindow ==
    /\ main = "loop" /\ window = NoWindow
    /\ window' \in Windows
    /\ UNCHANGED <<main, posted, mLocker, mIsRunning, scanner, run, scanned, mReporting, message,
                   mScanInProgress, shown, report, disturbed>>

(* Cancel closes the window, in the middle of its scan too. *)
CloseWindow ==
    /\ main = "loop" /\ window # NoWindow
    /\ window' = NoWindow
    /\ mScanInProgress' = FALSE
    /\ disturbed' = (disturbed \/ mScanInProgress)
    /\ UNCHANGED <<main, posted, mLocker, mIsRunning, scanner, run, scanned, mReporting, message,
                   shown, report>>

(* StartRescan calls Scan, which waits for the lock. *)
StartRescan ==
    /\ main = "loop" /\ window # NoWindow /\ ~mScanInProgress
    /\ mScanInProgress' = TRUE
    /\ main' = "scanning"
    /\ UNCHANGED <<posted, mLocker, mIsRunning, scanner, run, scanned, mReporting, message,
                   window, shown, report, disturbed>>

(* Scan(nullptr, true) of the web server calls Run, which stops at the first    *)
(* bios but for when the flag of the scanning thread is up.                    *)
WebScan ==
    /\ Free
    /\ mLocker' = "web" /\ run' = "scanning" /\ scanned' = 0
    /\ mReporting' = NoWindow
    /\ disturbed' = TRUE
    /\ UNCHANGED <<main, posted, mIsRunning, scanner, message, window, mScanInProgress, shown,
                   report>>

BiosUser == OpenWindow \/ CloseWindow \/ StartRescan \/ WebScan

--------------------------------------------------------------------------------
(* The main thread *)

(* Scan(this): nothing when a scan is running, else Thread::Start, which joins  *)
(* the thread of the scan before.                                              *)
Scan ==
    /\ main = "scanning" /\ Free
    /\ main' = "loop"
    /\ IF mIsRunning
       THEN UNCHANGED <<mIsRunning, scanner, mReporting>>
       ELSE mReporting' = window /\ mIsRunning' = TRUE /\ scanner' = "born"
    /\ UNCHANGED <<posted, mLocker, run, scanned, message, window, mScanInProgress, shown, report,
                   disturbed>>

(* Mutant: a handler does not wait for the lock. *)
HandlerGoesOnAnyway == TRUE
HandlerGoesOn == Free

(* ReceiveSyncMessage waits for the lock, and calls the window back. *)
ReceiveBios ==
    /\ Receive("bios")
    /\ main' = IF Head(posted).index = 0 THEN "completing" ELSE "progressing"
    /\ message' = Head(posted)
    /\ UNCHANGED <<mLocker, mIsRunning, scanner, run, scanned, mReporting, window, mScanInProgress,
                   shown, report, disturbed>>

ScanProgress ==
    /\ main = "progressing" /\ HandlerGoesOn
    /\ shown' = IF message.window = NoWindow THEN shown ELSE message.index
    /\ main' = "loop"
    /\ UNCHANGED <<posted, mLocker, mIsRunning, scanner, run, scanned, mReporting, message, window,
                   mScanInProgress, report, disturbed>>

(* Mutant: the thread is left to end on its own. *)
StopNothing == main' = "loop" /\ UNCHANGED <<mLocker, mIsRunning>>
StopThread == main' = "joining" /\ mLocker' = "main" /\ mIsRunning' = FALSE

(* The last message: ScanComplete, and Thread::Stop under the lock. *)
ScanComplete ==
    /\ main = "completing" /\ HandlerGoesOn
    /\ mScanInProgress' = (mScanInProgress /\ message.window # window)
    /\ shown' = IF message.window = NoWindow THEN shown ELSE 0
    /\ StopThread
    /\ UNCHANGED <<posted, scanner, run, scanned, mReporting, message, window, report, disturbed>>

Join ==
    /\ main = "joining" /\ scanner \in {"none", "ended"}
    /\ scanner' = "none" /\ mLocker' = "nobody"
    /\ main' = "loop"
    /\ UNCHANGED <<posted, mIsRunning, run, scanned, mReporting, message, window, mScanInProgress,
                   shown, report, disturbed>>

--------------------------------------------------------------------------------
(* Run, in the scanning thread or in one of the web server *)

LockAndScan ==
    /\ scanner = "born" /\ Free
    /\ scanner' = "running"
    /\ mLocker' = "scanner" /\ run' = "scanning" /\ scanned' = 0
    /\ report' = FALSE
    /\ UNCHANGED <<main, posted, mIsRunning, mReporting, message, window, mScanInProgress, shown,
                   disturbed>>

(* The lock is released. *)
Leave ==
    /\ run' = "none" /\ mLocker' = "nobody"
    /\ scanner' = IF mLocker = "scanner" THEN "leaving" ELSE scanner

(* for each bios: if (!IsRunning()) return; ScanAt, and a message. *)
ScanAt ==
    /\ run = "scanning" /\ scanned < Bios
    /\ \/ /\ mIsRunning
          /\ scanned' = scanned + 1
          /\ Send(scanned + 1)
          /\ UNCHANGED <<mLocker, scanner, run>>
       \/ ~mIsRunning /\ Leave /\ UNCHANGED <<scanned, posted>>
    /\ UNCHANGED <<main, mIsRunning, mReporting, message, window, mScanInProgress, shown, report,
                   disturbed>>

EndScan ==
    /\ run = "scanning" /\ scanned = Bios
    /\ Send(0)
    /\ mReporting' = NoWindow
    /\ run' = "reporting"
    /\ UNCHANGED <<main, mLocker, mIsRunning, scanner, scanned, message, window, mScanInProgress,
                   shown, report, disturbed>>

(* if (!IsRunning()) return; GenerateReport. *)
GenerateReport ==
    /\ run = "reporting"
    /\ report' = (report \/ mIsRunning)
    /\ Leave
    /\ UNCHANGED <<main, posted, mIsRunning, scanned, mReporting, message, window,
                   mScanInProgress, shown, disturbed>>

EndThread ==
    /\ scanner = "leaving"
    /\ mIsRunning' = FALSE /\ scanner' = "ended"
    /\ UNCHANGED <<main, posted, mLocker, run, scanned, mReporting, message, window,
                   mScanInProgress, shown, report, disturbed>>

BiosOnMain == Scan \/ ReceiveBios \/ ScanProgress \/ ScanComplete \/ Join

ScannerStep == LockAndScan \/ ScanAt \/ EndScan \/ GenerateReport \/ EndThread

BiosStep == BiosOnMain \/ ScannerStep

--------------------------------------------------------------------------------
(* Windows are told of all bios in their order, and that the scan is over when  *)
(* the report has been written as well: the handlers wait for its lock.        *)
ToWindow == message.window # NoWindow
ScanIsWhole ==
    [][/\ main = "progressing" /\ main' # main /\ ToWindow => shown' = shown + 1
       /\ main = "completing" /\ main' # main /\ ToWindow => shown = Bios /\ report]_<<main, biosVars>>

(* A window that asks for a scan, and is not closed before its end, is told of  *)
(* it, unless the web scans: the thread can be started again after each scan.  *)
UndisturbedScanEnds == mScanInProgress ~> ~mScanInProgress \/ disturbed

(* "Start scanning all bios and report result using the given interface": with  *)
(* no condition. Refuted: nothing is started while an earlier scan is running,  *)
(* and a scan of the web takes the interface away.                             *)
ScanEnds == mScanInProgress ~> ~mScanInProgress

(* "Allow the thread to be restarted": the handler of the last message returns.  *)
(* Refuted: it joins, with the lock, a thread that may be waiting for the lock. *)
JoinEnds == main = "joining" ~> main = "loop"
================================================================================
