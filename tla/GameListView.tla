------------------------------ MODULE GameListView ------------------------------
(* A game list (DetailedGameListView) and the thread of ViewController that    *)
(* fetches what is slow to know of the item under its cursor: does a game have *)
(* a pad-to-keyboard file, what images does a folder hold? The thread has one  *)
(* slot for its order and one buffer for the images. No folder is scraped.     *)
EXTENDS EventQueue

CONSTANTS
    Folders,                \* in the list, with the games
    P2KGames,               \* the games that have a pad-to-keyboard file
    FirstItem, NoItem

VARIABLES
    cursor,
    scrolling,
    mLastCursorItem,        \* the last item the list asked for
    mLastCursorItemHasP2K,
    folderContent,          \* the folder whose images are on the screen
    asked,                  \* history: this visit of the list asked for the item
    mNextItem,              \* the slot
    mSignal,                \* its flag, see AutoResetEvent
    fetcher,                \* where the thread is
    item,                   \* what it fetches
    mLastFolderImagePath    \* whose images are in the buffer; NoItem: half written

listVars == <<cursor, scrolling, mLastCursorItem, mLastCursorItemHasP2K, folderContent, asked>>
orderVars == <<mNextItem, mSignal>>
fetchVars == <<fetcher, item, mLastFolderImagePath>>
slowVars == <<listVars, orderVars, fetchVars>>

(* The list is open and has asked for its first item, a game without such a file. *)
SlowInit ==
    /\ cursor = FirstItem /\ scrolling = FALSE /\ mLastCursorItem = FirstItem
    /\ mLastCursorItemHasP2K = FALSE /\ folderContent = NoItem /\ asked = TRUE
    /\ mNextItem = NoItem /\ mSignal = FALSE
    /\ fetcher = "waiting" /\ item = NoItem /\ mLastFolderImagePath = NoItem

--------------------------------------------------------------------------------
(* The main thread *)

(* Mutant: only a thread that waits is woken. *)
FireIfWaiting == mSignal' = (fetcher = "waiting")
Fire == mSignal' = TRUE

FetchSlowDataFor(data) == mNextItem' = data /\ Fire

(* NoItem when the list scrolls. The images of the last folder stay. *)
DoUpdateGameInformation(file) ==
    /\ mLastCursorItem' = file
    /\ asked' = (asked \/ file # mLastCursorItem)
    /\ mLastCursorItemHasP2K' = (mLastCursorItemHasP2K /\ file = mLastCursorItem)
    /\ IF file \in {NoItem, mLastCursorItem}
       THEN UNCHANGED orderVars
       ELSE FetchSlowDataFor(file)
    /\ UNCHANGED folderContent

CursorChanged(i, scrolls) ==
    /\ main = "loop" /\ mCurrentViewType = "GameList"
    /\ <<i, scrolls>> # <<cursor, scrolling>>
    /\ cursor' = i /\ scrolling' = scrolls
    /\ DoUpdateGameInformation(IF scrolls THEN NoItem ELSE i)
    /\ UNCHANGED <<main, posted, mCurrentViewType, fetchVars>>

EnterList ==
    /\ main = "loop" /\ mCurrentViewType # "GameList"
    /\ mCurrentViewType' = "GameList"
    /\ DoUpdateGameInformation(IF scrolling THEN NoItem ELSE cursor)
    /\ UNCHANGED <<main, posted, cursor, scrolling, fetchVars>>

LeaveList ==
    /\ main = "loop" /\ mCurrentViewType = "GameList"
    /\ mCurrentViewType' = "SystemList"
    /\ asked' = FALSE
    /\ UNCHANGED <<main, posted, cursor, scrolling, mLastCursorItem, mLastCursorItemHasP2K,
                   folderContent, orderVars, fetchVars>>

(* ReceiveSyncMessage and UpdateSlowData: the answer is for the cursor, or lost. *)
(* The images come from the buffer, whatever is in it by now.                  *)
ReceiveSlowData ==
    /\ Receive("list")
    /\ LET info == Head(posted)
           shows == mCurrentViewType = "GameList" /\ info.item = cursor
       IN  /\ mLastCursorItemHasP2K' = (mLastCursorItemHasP2K \/ (shows /\ info.item \notin Folders))
           /\ folderContent' = IF shows /\ info.item \in Folders THEN mLastFolderImagePath
                               ELSE folderContent
    /\ UNCHANGED <<main, mCurrentViewType, cursor, scrolling, mLastCursorItem, asked, orderVars,
                   fetchVars>>

--------------------------------------------------------------------------------
(* The thread: WaitSignal, then the slot until it is empty *)

FetcherWaits ==
    /\ fetcher = "looping"
    /\ fetcher' = "waiting"
    /\ UNCHANGED <<main, posted, mCurrentViewType, listVars, orderVars, item, mLastFolderImagePath>>

FetcherWakes ==
    /\ fetcher = "waiting" /\ mSignal
    /\ mSignal' = FALSE
    /\ fetcher' = "working"
    /\ UNCHANGED <<main, posted, mCurrentViewType, listVars, mNextItem, item, mLastFolderImagePath>>

TakeItem ==
    /\ fetcher = "working"
    /\ item' = mNextItem /\ mNextItem' = NoItem
    /\ fetcher' = CASE mNextItem = NoItem -> "looping"
                    [] mNextItem \in Folders -> "storing"
                    [] mNextItem \in P2KGames -> "sending"
                    [] OTHER -> "working"
    /\ UNCHANGED <<main, posted, mCurrentViewType, listVars, mSignal, mLastFolderImagePath>>

(* The buffer is filled under the lock, but read without it. *)
StoreImages ==
    /\ fetcher \in {"storing", "stored"}
    /\ mLastFolderImagePath' = IF fetcher = "storing" THEN NoItem ELSE item
    /\ fetcher' = IF fetcher = "storing" THEN "stored" ELSE "sending"
    /\ UNCHANGED <<main, posted, mCurrentViewType, listVars, orderVars, item>>

SendSlowData ==
    /\ fetcher = "sending"
    /\ Post([to |-> "list", item |-> item])
    /\ fetcher' = "working"
    /\ UNCHANGED <<main, mCurrentViewType, listVars, orderVars, item, mLastFolderImagePath>>

FetcherStep == FetcherWaits \/ FetcherWakes \/ TakeItem \/ StoreImages \/ SendSlowData

SlowStep == ReceiveSlowData \/ FetcherStep

SlowUser ==
    \E i \in Folders \cup Games, s \in BOOLEAN : CursorChanged(i, s)

--------------------------------------------------------------------------------
Resting == mCurrentViewType = "GameList" /\ ~scrolling

(* The help offers the pad-to-keyboard file of the game, the images are those of *)
(* the folder.                                                                 *)
Known ==
    /\ mLastCursorItemHasP2K <=> cursor \in P2KGames
    /\ cursor \in Folders => folderContent = cursor

(* What a visit of the list asked for comes to the screen, however many orders  *)
(* and answers were replaced or dropped on the way, unless the user goes on.   *)
SlowDataComes == Resting /\ asked ~> Known \/ ~(Resting /\ asked)

(* Refuted: the images on the screen are those of the folder they were asked    *)
(* for. The buffer holds the images of the last folder that was fetched.       *)
ImagesAreOfFolder == [][folderContent' # folderContent => folderContent' = cursor]_slowVars

(* Refuted: a list at rest comes to know its item. An answer that comes while   *)
(* the user looks at the systems is lost, and is not asked for again.          *)
SlowDataComesBack == Resting ~> Known \/ ~Resting
================================================================================
