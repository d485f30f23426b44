------------------------------- MODULE MCMainLoop -------------------------------
(* MainLoop with the components that are asked together, and how often each:    *)
(* those that share a thread, a view or the main thread's wait for a lock.     *)
EXTENDS MainLoop

AllStories ==
    {[list |-> 2, systems |-> 2],
     [list |-> 3],
     [systems |-> 3],
     [list |-> 1, scraper |-> 1],
     [scraper |-> 3],
     [systems |-> 1, mounts |-> 3],
     [bios |-> 3, mounts |-> 1],
     [bios |-> 5]}
================================================================================
