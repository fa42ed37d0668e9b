-------------------------- MODULE WorkerProcesses --------------------------
(***************************************************************************)
(* The two processes that work on the headset's stream outside the daily   *)
(* session: a candidate worker, and the media process of the installed     *)
(* agent.  Each has the stream to itself, and what both owe the headset    *)
(* and the host is stated here.                                            *)
(***************************************************************************)
EXTENDS BurstWorker, MediaProcess

\* A candidate worker and the media process of the installed agent both leave the
\* headset as they report it.
ProcessesEndClean == BurstEndsClean /\ ProbeEndsClean

\* Told to stop, either ends.
StoppedProcessesEnd == StoppedWorkerEnds /\ StoppedProbeEnds
=============================================================================
