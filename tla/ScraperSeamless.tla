----------------------------- MODULE ScraperSeamless -----------------------------
(* ScraperSeamless: games under the cursor are scraped in the background by a  *)
(* permanent ThreadPool, one ScreenScraperSingleEngine per worker, and every   *)
(* stage is reported to the list that pushed the game. External: what the web  *)
(* service answers. The three stages of the media are one.                     *)
EXTENDS EventQueue, FiniteSets

CONSTANT
    Workers      \* as many as there are engines, which are numbered from 0

VARIABLES
    feeds,             \* the queue of the pool, taken in any order here
    mRunningScrapes,
    mBusyEngines,
    mAbortRequest,     \* the engines that were aborted
    worker,            \* where each worker is
    feed, engine,      \* the game and the engine of each
    stamped            \* the games with a time stamp

poolVars == <<worker, feed, engine>>
scrapeVars == <<feeds, mRunningScrapes, mBusyEngines, mAbortRequest, poolVars, stamped>>

Engines == 0 .. Cardinality(Workers) - 1

ScrapeInit ==
    /\ feeds = {} /\ mRunningScrapes = {} /\ mBusyEngines = {} /\ mAbortRequest = {}
    /\ worker = [w \in Workers |-> "idle"]
    /\ feed = [w \in Workers |-> CHOOSE g \in Games : TRUE]
    /\ engine = [w \in Workers |-> 0]
    /\ stamped = {}

--------------------------------------------------------------------------------
(* The main thread *)

(* A worker may take the feed before the game is inserted; that is one step     *)
(* here, because what it reports is handled by the thread that is pushing.     *)
Push(game) ==
    /\ main = "loop" /\ game \notin stamped \cup mRunningScrapes
    /\ feeds' = feeds \cup {game}
    /\ mRunningScrapes' = mRunningScrapes \cup {game}
    /\ UNCHANGED <<main, posted, mBusyEngines, mAbortRequest, poolVars, stamped>>

(* Mutant: every stage is taken for the last. *)
AnyStageRemoves(stage) == TRUE
Removes(stage) == stage = "Completed"

ReceiveStage ==
    /\ Receive("scraper")
    /\ mRunningScrapes' = IF Removes(Head(posted).stage) THEN mRunningScrapes \ {Head(posted).game}
                          ELSE mRunningScrapes
    /\ UNCHANGED <<main, feeds, mBusyEngines, mAbortRequest, poolVars, stamped>>

--------------------------------------------------------------------------------
(* The workers *)

Goto(w, label) == worker' = [worker EXCEPT ![w] = label]

StageCompleted(w, stage) == Post([to |-> "scraper", game |-> feed[w], stage |-> stage])

TakeFeed(w) ==
    /\ worker[w] = "idle"
    /\ \E g \in feeds : feeds' = feeds \ {g} /\ feed' = [feed EXCEPT ![w] = g]
    /\ Goto(w, "allocating")
    /\ UNCHANGED <<main, posted, mRunningScrapes, mBusyEngines, mAbortRequest, engine, stamped>>

(* The free engine of the highest number; without one the game is given up. *)
AllocateEngine(w) ==
    /\ worker[w] = "allocating"
    /\ IF Engines \subseteq mBusyEngines
       THEN Goto(w, "idle") /\ UNCHANGED <<mBusyEngines, engine>>
       ELSE \E e \in Engines \ mBusyEngines :
              /\ \A f \in Engines \ mBusyEngines : f <= e
              /\ engine' = [engine EXCEPT ![w] = e]
              /\ mBusyEngines' = mBusyEngines \cup {e}
              /\ Goto(w, "scraping")
    /\ UNCHANGED <<main, posted, feeds, mRunningScrapes, mAbortRequest, feed, stamped>>

(* The engine aborts for good on a fatal error: nobody resets mAbortRequest.    *)
Aborts(w) == mAbortRequest' = mAbortRequest \cup {engine[w]} /\ Goto(w, "completing")

Scrape(w) ==
    /\ worker[w] = "scraping"
    /\ \/ Goto(w, "completing") /\ UNCHANGED <<posted, mAbortRequest>>    \* aborted, or nothing found
       \/ /\ engine[w] \notin mAbortRequest
          /\ \/ Aborts(w) /\ UNCHANGED posted
             \/ Goto(w, "downloading") /\ StageCompleted(w, "Text") /\ UNCHANGED mAbortRequest
    /\ UNCHANGED <<main, feeds, mRunningScrapes, mBusyEngines, feed, engine, stamped>>

DownloadAndStoreMedia(w) ==
    /\ worker[w] = "downloading"
    /\ \/ Aborts(w) /\ UNCHANGED posted
       \/ StageCompleted(w, "Media") /\ Goto(w, "completing") /\ UNCHANGED mAbortRequest
    /\ UNCHANGED <<main, feeds, mRunningScrapes, mBusyEngines, feed, engine, stamped>>

Complete(w) ==
    /\ worker[w] = "completing"
    /\ StageCompleted(w, "Completed")
    /\ Goto(w, "stamping")
    /\ UNCHANGED <<main, feeds, mRunningScrapes, mBusyEngines, mAbortRequest, feed, engine, stamped>>

SetTimeStamp(w) ==
    /\ worker[w] = "stamping"
    /\ stamped' = stamped \cup {feed[w]}
    /\ Goto(w, "freeing")
    /\ UNCHANGED <<main, posted, feeds, mRunningScrapes, mBusyEngines, mAbortRequest, feed, engine>>

(* Mutant: the engine stays busy. *)
StillBusy(w) == mBusyEngines
BusyWithout(w) == mBusyEngines \ {engine[w]}

FreeEngine(w) ==
    /\ worker[w] = "freeing"
    /\ mBusyEngines' = BusyWithout(w)
    /\ Goto(w, "idle")
    /\ UNCHANGED <<main, posted, feeds, mRunningScrapes, mAbortRequest, feed, engine, stamped>>

WorkerStep(w) ==
    \/ TakeFeed(w) \/ AllocateEngine(w) \/ Scrape(w) \/ DownloadAndStoreMedia(w)
    \/ Complete(w) \/ SetTimeStamp(w) \/ FreeEngine(w)

ScrapeStep == ReceiveStage \/ \E w \in Workers : WorkerStep(w)

--------------------------------------------------------------------------------
(* Every stage is reported while its game is in the set of running scrapes,     *)
(* also when the game is pushed again before the end of its last scrape.       *)
StagesFindTheirScrape ==
    \A i \in DOMAIN posted : posted[i].to = "scraper" => posted[i].game \in mRunningScrapes

(* Every scrape ends, whatever the service answers: no game is given up, since  *)
(* a worker that takes one finds a free engine.                                *)
ScrapesEnd == mRunningScrapes # {} ~> mRunningScrapes = {}

(* Refuted: a game is given a time stamp once. The last message goes out before *)
(* the stamp, and until then the game may be pushed again.                     *)
StampedOnce == [][\A w \in Workers : worker[w] = "stamping" /\ worker'[w] = "freeing" => feed[w] \notin stamped]_scrapeVars

(* Refuted: a game with a time stamp was asked for. Those of an aborted engine  *)
(* are not, and are left alone for thirty days.                                *)
StampedWereScraped ==
    [][\A w \in Workers : worker[w] = "scraping" /\ worker'[w] # "scraping" => engine[w] \notin mAbortRequest]_scrapeVars
================================================================================
