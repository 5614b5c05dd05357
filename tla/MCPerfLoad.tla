----------------------------- MODULE MCPerfLoad -----------------------------
(* Values for the constants of PerfLoad: every file of at most MaxLen       *)
(* records over a few tables of attributes.                                 *)
EXTENDS PerfLoad

CONSTANTS MaxLen, MaxTs

\* The CUDA and NCCL calls, in the order of classify_event.
MCGpuCalls ==
  <<"launch", "stream_sync", "dev_sync", "event_sync", "memcpy_htod", "memcpy_dtoh",
    "memcpy_dtod", "memcpy_async", "memcpy_peer", "malloc", "free", "allreduce",
    "broadcast", "reducescatter">>

Attribute(fields, name, ids, software) ==
  [fields |-> fields, name |-> name, ids |-> ids, software |-> software]

\* All attributes alike, as perf record asks for them, in either format.
MCAlike ==
  LET fields == {"TID", "TIME", "ID", "CPU", "RAW"} IN
  <<Attribute(fields, Entry("sched_switch"), {71, 72}, FALSE),
    Attribute(fields, OnReturn("take_gil"), {73}, FALSE)>>

\* Attributes that differ, told apart by the identifier that comes first.
MCDifferent ==
  <<Attribute({"IDENTIFIER", "IP", "TID", "TIME", "ADDR", "STREAM_ID", "CPU", "PERIOD",
               "CALLCHAIN", "RAW"}, Entry("sched_wakeup"), {71, 72}, FALSE),
    Attribute({"IDENTIFIER", "TID", "TIME", "ID", "CALLCHAIN", "BRANCH_STACK", "STACK_USER",
               "WEIGHT", "DATA_SRC", "TRANSACTION", "PHYS_ADDR", "CGROUP",
               "DATA_PAGE_SIZE", "CODE_PAGE_SIZE"}, OnReturn("free"), {73}, FALSE)>>

\* One of the attributes has a field of unknown size.
MCUndecodable ==
  <<Attribute({"IDENTIFIER", "TID", "TIME", "READ"}, Entry("malloc"), {71, 72}, FALSE),
    Attribute({"IDENTIFIER", "TID", "TIME", "PHYS_ADDR", "AUX"}, Entry("context-switches"),
              {73}, TRUE)>>

MCHeaders ==
  {[attrs |-> MCAlike, paired |-> TRUE, desc |-> TRUE],
   [attrs |-> MCAlike, paired |-> FALSE, desc |-> TRUE],
   [attrs |-> MCDifferent, paired |-> TRUE, desc |-> TRUE],
   [attrs |-> MCUndecodable, paired |-> TRUE, desc |-> FALSE],
   [attrs |-> <<MCAlike[1]>>, paired |-> FALSE, desc |-> TRUE]}

\* A sample of attribute number a: its facts and the memory they become.
SampleRecord(attrs, a, facts) ==
  [type |-> "sample", attr |-> a, id |-> facts.id, ts |-> facts.ts, tid |-> facts.tid,
   arg |-> facts.arg, raw |-> facts.raw, cut |-> facts.cut,
   payload |-> Payload(attrs[a], facts)]

\* Samples of either attribute, with raw data of any form; one is cut.
MCSamples(attrs) ==
  LET facts(id, ts, raw, cut) ==
        [id |-> id, ts |-> ts, tid |-> 5, arg |-> 6, raw |-> raw, cut |-> cut]
      record(a, f) == SampleRecord(attrs, a, f)
  IN  {record(1, facts(72, ts, "common", FALSE)) : ts \in 1 .. MaxTs}
        \cup {record(1, facts(71, 1, "short", FALSE)), record(1, facts(72, 1, "stripped", FALSE)),
              record(1, facts(71, 1, "common", TRUE))}
        \cup {record(2, facts(73, ts, "common", FALSE)) : ts \in IF Len(attrs) = 2 THEN 1 .. MaxTs ELSE {}}

MCOthers ==
  [type : {"fork"}, ts : {2}, tid : {5}, arg : {7}, cut : BOOLEAN]
    \cup [type : {"comm"}, tid : {5}, name : {"a", "b", ""}, cut : {FALSE}]
    \cup {[type |-> "mmap"], [type |-> "bad"]}

MCFiles ==
  UNION {[attrs : {h.attrs}, paired : {h.paired}, desc : {h.desc},
          records : UNION {[1 .. n -> MCSamples(h.attrs) \cup MCOthers] : n \in 0 .. MaxLen}]
         : h \in MCHeaders}

MCInputs == UNION {[1 .. n -> [ts : 1 .. MaxTs, kind : Kinds]] : n \in 0 .. MaxLen}
=============================================================================
