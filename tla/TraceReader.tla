----------------------------- MODULE TraceReader -----------------------------
(***************************************************************************)
(* tracereader.cc: get() of the three trace formats, which read one record *)
(* ahead because a record does not hold the target of its branch, the      *)
(* address of the record after it does.  At the end of the trace the       *)
(* decompressor is started again.  A record is its address here.           *)
(***************************************************************************)
EXTENDS Integers, Sequences

CONSTANTS
    Record,             \* addresses of instructions
    MaxTraceLength      \* bound: records in a trace

ASSUME TraceReaderAssumption == MaxTraceLength \in Nat \ {0}

VARIABLES
    trace_file,         \* the records of the trace
    position,           \* how many of them have been read since it was opened
    initialized,
    last_instr,         \* [ip, branch_target]
    handed_out          \* history: the two instructions get() returned last

traceVars == <<trace_file, position, initialized, last_instr, handed_out>>

TraceReaderInit ==
    /\ trace_file \in UNION {[1 .. n -> Record] : n \in 1 .. MaxTraceLength}
    /\ position = 0
    /\ initialized = FALSE
    /\ last_instr = [ip |-> 0, branch_target |-> 0]
    /\ handed_out = <<>>

(* read_single_instr: fread fails at the end of the trace, and what is     *)
(* read then is the first record again.                                    *)
NextPosition == IF position = Len(trace_file) THEN 1 ELSE position + 1

TargetTooLate(old, ip) == old   \* mutant: the copy is made before the target is known

(* What get() hands out before the record it has read replaces it.         *)
Completed(old, ip) == [old EXCEPT !.branch_target = ip]

get ==
    LET ip == trace_file[NextPosition]
        read == [ip |-> ip, branch_target |-> 0]
        retval == Completed(IF initialized THEN last_instr ELSE read, ip)
    IN  /\ position' = NextPosition
        /\ initialized' = TRUE
        /\ last_instr' = read
        /\ handed_out' = IF handed_out = <<>> THEN <<retval>>
                         ELSE <<handed_out[Len(handed_out)], retval>>
        /\ UNCHANGED trace_file

TraceReaderSpec == TraceReaderInit /\ [][get]_traceVars

-----------------------------------------------------------------------------
TraceReaderTypeOK ==
    /\ position \in 0 .. Len(trace_file)
    /\ Len(handed_out) <= 2
    /\ initialized <=> handed_out # <<>>

(* Every instruction names as its target the one that is handed out after  *)
(* it: also the first, which is handed out twice, and across the end of    *)
(* the trace.                                                              *)
TargetIsNext ==
    Len(handed_out) = 2 => handed_out[1].branch_target = handed_out[2].ip
=============================================================================
