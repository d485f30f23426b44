-------------------------------- MODULE MainLoop --------------------------------
(* The main thread with the components that work for it in threads of their    *)
(* own and report to it by synchronized messages: the two views, the mount     *)
(* monitor, the seamless scraper and the bios manager. They share its thread,  *)
(* its queue of messages and the current view.                                 *)
EXTENDS GameListView, SystemView, MountMonitor, ScraperSeamless, BiosManager

CONSTANT
    Stories     \* bound: how often users, the web and the kernel ask which components

ASSUME FirstAssumption == FirstItem \in Games \ P2KGames /\ FirstSystem \in Systems
ASSUME BiosAssumption == Bios \in Nat \ {0} /\ NoWindow \notin Windows
ASSUME WorkersAssumption == IsFiniteSet(Workers)
ASSUME StoriesAssumption == \A s \in Stories : \A c \in DOMAIN s : s[c] \in Nat

VARIABLE
    story       \* how often each may still be asked

vars == <<main, posted, mCurrentViewType, slowVars, systemVars, mountVars, scrapeVars, biosVars, story>>

Init ==
    /\ main = "loop" /\ posted = <<>> /\ mCurrentViewType = "GameList"
    /\ SlowInit /\ SystemInit /\ MountInit /\ ScrapeInit /\ BiosInit
    /\ story \in Stories /\ (monitor = "opening" <=> "mounts" \in DOMAIN story)

(* Steps that leave the other components alone *)
OfList == UNCHANGED <<systemVars, mountVars, scrapeVars, biosVars>>
OfSystems == UNCHANGED <<slowVars, mountVars, scrapeVars, biosVars>>
OfMounts == UNCHANGED <<mCurrentViewType, slowVars, systemVars, scrapeVars, biosVars>>
OfScraper == UNCHANGED <<mCurrentViewType, slowVars, systemVars, mountVars, biosVars>>
OfBios == UNCHANGED <<mCurrentViewType, slowVars, systemVars, mountVars, scrapeVars>>

(* goToGameList and goToSystemView *)
ChangeView ==
    \/ EnterList /\ OfList
    \/ LeaveList /\ goToSystem /\ UNCHANGED <<mountVars, scrapeVars, biosVars>>

(* DetailedGameListView::Update pushes a game that the cursor stays on. *)
ScrapeCursor == Resting /\ cursor \in Games /\ Push(cursor)

May(c) ==
    /\ c \in DOMAIN story /\ story[c] > 0
    /\ story' = [story EXCEPT ![c] = @ - 1]

Ask ==
    \/ May("systems") /\ ChangeView
    \/ May("list") /\ SlowUser /\ OfList
    \/ May("systems") /\ (\E s \in Systems : SelectSystem(s)) /\ OfSystems
    \/ May("mounts") /\ (\E d \in Devices : MountOrUnmount(d)) /\ OfMounts
    \/ May("bios") /\ BiosUser /\ OfBios
    \/ May("scraper") /\ ScrapeCursor /\ OfScraper

(* What goes on when nobody asks for anything more *)
Work ==
    /\ \/ SlowStep /\ OfList
       \/ SystemStep /\ OfSystems
       \/ MountStep /\ OfMounts
       \/ ScrapeStep /\ OfScraper
       \/ BiosStep /\ OfBios
    /\ UNCHANGED story

Next == Ask \/ Work

Spec == Init /\ [][Next]_vars

(* Some thread that can go on is scheduled. That is enough: the threads wait    *)
(* for one another and never spin.                                             *)
FairSpec == Spec /\ WF_vars(Work)
================================================================================
