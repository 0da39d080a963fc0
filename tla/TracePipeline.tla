---------------------------- MODULE TracePipeline ----------------------------
(***************************************************************************)
(* The pintool and the merge utility at the two ends of the trace file     *)
(* (README, "Merge Utility"): what comes out is the execution as it was    *)
(* performed.                                                              *)
(*                                                                         *)
(* The merge utility reads behind the pintool and never holds it up, so    *)
(* what it does with a part of the file does not depend on when it does    *)
(* it: here it takes each line as soon as it is written.                   *)
(***************************************************************************)
EXTENDS TracerProperties, FiniteSets

VARIABLES
  merge_pc, lines_read, out,                        \* Merge's pc, trace and out
  queues, time_threadid_min, tt_list, safe_cache, active_threads,
  effects           \* history: the threads whose accesses were performed, in order

mergeVars == <<merge_pc, lines_read, out, queues, time_threadid_min, tt_list, safe_cache,
               active_threads>>
pipelineVars == <<vars, mergeVars, effects>>

Utility == INSTANCE Merge
             WITH Tids <- Threads, MaxLines <- 0, Reuse <- FALSE,
                  pc <- merge_pc, trace <- lines_read

PipelineInit ==
  /\ Init /\ Utility!Init
  /\ effects = <<>>

Unread == Len(lines_read) < Len(trace_file)

\* An instruction takes effect.
Performs(t) == Execute(t) \/ ExecuteCAS(t)

TracerStep ==
  /\ merge_pc = "read" /\ ~Unread
  /\ Next
  /\ \/ \E t \in Threads : Performs(t) /\ effects' = Append(effects, t)
     \/ (\A t \in Threads : ~Performs(t)) /\ UNCHANGED effects
  /\ UNCHANGED mergeVars

\* The pintool closes the file when the last thread has finished.
FileClosed == ~Unread /\ \A t \in Threads : pc[t] \in {"unstarted", "finished"}

MergeStep ==
  /\ \/ Unread /\ Utility!ReadLine(trace_file[Len(lines_read) + 1])
     \/ Utility!MergeTop
     \/ Utility!MergeStops
     \/ FileClosed /\ Utility!EndOfFile
  /\ UNCHANGED <<vars, effects>>

\* The utility has returned.
Over == merge_pc \notin {"read", "merge"} /\ UNCHANGED pipelineVars

PipelineNext == TracerStep \/ MergeStep \/ Over

PipelineSpec == PipelineInit /\ [][PipelineNext]_pipelineVars

(***************************************************************************)
(* Properties                                                              *)
(***************************************************************************)
\* No assert of the merge utility fails on a file of the pintool's.
UtilitySucceeds == merge_pc \notin {"failed", "left"}

\* The accesses among the first n lines of the output.
AccessesOut(n) == Cardinality({i \in 1 .. n : out[i].what = "m"})

\* The output "will contain properly ordered events and accesses": accesses
\* that share an address lock come out of the tool chain in the order in which
\* they were performed, one line for each.  With a single lock, all share it.
OutputIsExecution ==
  Locks = {0} =>
    /\ \A i \in DOMAIN out : out[i].what = "m" /\ AccessesOut(i) \in DOMAIN effects =>
         out[i].tid = effects[AccessesOut(i)]
    /\ merge_pc = "done" => AccessesOut(Len(out)) = Len(effects)
=============================================================================
