------------------------------ MODULE MountMonitor ------------------------------
(* MountMonitor: a thread polls /proc/mounts, compares the table with the last *)
(* one and reports every difference through one shared mPendingMountPoint.     *)
(* External: the kernel, that mounts and unmounts devices and raises POLLPRI   *)
(* for a change since the last poll. The share device is not in the table.     *)
EXTENDS EventQueue

CONSTANTS Devices, NoDevice

VARIABLES
    mounted,              \* the devices the kernel has mounted
    event,                \* POLLPRI: has the table changed since the last poll?
    mMountPoints,
    newMounts,            \* the table just loaded
    reports,              \* differences to report, each <<is it mounted?, device>>
    monitor,              \* where the thread is
    mPendingMountPoint,   \* the device of the message; NoDevice: half written
    change,               \* the change that is reported
    notified              \* history: the last change the interface was told

mountVars == <<mounted, event, mMountPoints, newMounts, reports, monitor, mPendingMountPoint,
               change, notified>>

NoChange == <<FALSE, NoDevice>>

(* The constructor has loaded the table, the thread may have opened the file.  *)
MountInit ==
    /\ mounted = {} /\ event = FALSE /\ mMountPoints = {} /\ newMounts = {}
    /\ reports = {} /\ monitor \in {"opening", "polling"} /\ mPendingMountPoint = NoDevice
    /\ change = NoChange /\ notified = NoChange

--------------------------------------------------------------------------------
(* The kernel *)

(* Nobody sees the event of a file that is not open. *)
MountOrUnmount(d) ==
    /\ mounted' = (mounted \ {d}) \cup ({d} \ mounted)
    /\ event' = (monitor # "opening")
    /\ UNCHANGED <<main, posted, mMountPoints, newMounts, reports, monitor, mPendingMountPoint,
                   change, notified>>

--------------------------------------------------------------------------------
(* The thread *)

Open ==
    /\ monitor = "opening"
    /\ monitor' = "polling"
    /\ UNCHANGED <<main, posted, mounted, event, mMountPoints, newMounts, reports,
                   mPendingMountPoint, change, notified>>

Poll ==
    /\ monitor = "polling" /\ event
    /\ event' = FALSE
    /\ monitor' = "loading"
    /\ UNCHANGED <<main, posted, mounted, mMountPoints, newMounts, reports, mPendingMountPoint,
                   change, notified>>

LoadMountPoints ==
    /\ monitor = "loading"
    /\ newMounts' = mounted
    /\ monitor' = "comparing"
    /\ UNCHANGED <<main, posted, mounted, event, mMountPoints, reports, mPendingMountPoint,
                   change, notified>>

(* Process, up to its loops: what is in both tables is erased, the old table in *)
(* place. The rest are changes to report.                                      *)
Compare ==
    /\ monitor = "comparing"
    /\ reports' = {<<FALSE, d>> : d \in mMountPoints \ newMounts} \cup {<<TRUE, d>> : d \in newMounts \ mMountPoints}
    /\ mMountPoints' = mMountPoints \ newMounts
    /\ monitor' = "reporting"
    /\ UNCHANGED <<main, posted, mounted, event, newMounts, mPendingMountPoint, change, notified>>

(* mPendingMountPoint = mp, of the old table first. It is read without a lock,  *)
(* so the assignment takes two steps.                                          *)
SetPending ==
    /\ monitor = "reporting"
    /\ \E r \in reports :
          /\ r[1] => \A q \in reports : q[1]
          /\ change' = r
          /\ reports' = reports \ {r}
    /\ mPendingMountPoint' = NoDevice
    /\ monitor' = "writing"
    /\ UNCHANGED <<main, posted, mounted, event, mMountPoints, newMounts, notified>>

PendingSet ==
    /\ monitor = "writing"
    /\ mPendingMountPoint' = change[2]
    /\ monitor' = "sending"
    /\ UNCHANGED <<main, posted, mounted, event, mMountPoints, newMounts, reports, change, notified>>

(* The message is the flag alone: its device is history.                        *)
SendEvent ==
    /\ monitor = "sending"
    /\ Post([to |-> "mounts", mounted |-> change[1], device |-> change[2]])
    /\ monitor' = "reporting"
    /\ UNCHANGED <<main, mounted, event, mMountPoints, newMounts, reports, mPendingMountPoint,
                   change, notified>>

KeepTable ==
    /\ monitor = "reporting" /\ reports = {}
    /\ mMountPoints' = newMounts
    /\ monitor' = "polling"
    /\ UNCHANGED <<main, posted, mounted, event, newMounts, reports, mPendingMountPoint, change,
                   notified>>

--------------------------------------------------------------------------------
(* The main thread *)

(* Mutant: the device is the one of the message before. *)
DeviceBefore == notified[2]
DeviceNow == mPendingMountPoint

ReceiveMountEvent ==
    /\ Receive("mounts")
    /\ notified' = <<Head(posted).mounted, DeviceNow>>
    /\ UNCHANGED <<main, mounted, event, mMountPoints, newMounts, reports, monitor,
                   mPendingMountPoint, change>>

MonitorStep ==
    \/ Open \/ Poll \/ LoadMountPoints \/ Compare
    \/ SetPending \/ PendingSet \/ SendEvent \/ KeepTable

MountStep == MonitorStep \/ ReceiveMountEvent

--------------------------------------------------------------------------------
InFlight == \E i \in DOMAIN posted : posted[i].to = "mounts"

(* When nothing is under way, the last change that was reported is the last one *)
(* that was seen, with its device, however the messages of the changes before  *)
(* it were mixed up.                                                           *)
LastChangeReported == monitor = "polling" /\ ~InFlight => notified = change

(* Refuted: every message comes with the device it was sent for. *)
EveryChangeReported == [][notified' # notified => notified'[2] = Head(posted).device]_<<mountVars, posted>>

(* Refuted: the thread ends up with the table of the kernel. A device that is   *)
(* mounted between the constructor and open is not seen.                       *)
TableIsComplete == <>[](mMountPoints = mounted)

(* Refuted: a device that stays mounted is found by SizeOf, on the main thread. *)
MountedIsFound == [][mMountPoints \cap mounted \subseteq mMountPoints']_mountVars
================================================================================
