---------------------------- MODULE MCHostFiles ----------------------------
(* HostFiles on small instances; see the README for the bounds.            *)
EXTENDS HostFiles

CONSTANTS c1, c2

BothClients == {c1, c2}

MCContents == {NoFile, <<1, 2, 3>>}

J == [kind |-> "write", mode |-> "replace", at |-> 0, length |-> 0, truncate |-> FALSE,
      source |-> "bytes", chunks |-> <<>>, calls |-> <<>>, concurrent |-> FALSE,
      create |-> FALSE, keep |-> FALSE, ends |-> "close", abortable |-> FALSE]

W(at, data) == [do |-> "write", at |-> at, data |-> data]

T(size) == [do |-> "truncate", at |-> size, data |-> <<>>]

WriteJobs ==
  {[J EXCEPT !.chunks = <<<<4, 5>>>>],
   [J EXCEPT !.mode = "update", !.at = 4, !.chunks = <<<<4>>>>],
   [J EXCEPT !.mode = "update", !.at = 1, !.chunks = <<<<4>>>>],
   [J EXCEPT !.mode = "append", !.source = "stream", !.abortable = TRUE,
             !.chunks = <<<<4>>, <<5, 6>>>>],
   [J EXCEPT !.mode = "update", !.at = 1, !.truncate = TRUE, !.source = "stream",
             !.abortable = TRUE, !.chunks = <<<<4>>>>]}

\* Two writes that do not overlap each other.
Apart == <<W(0, <<4, 5>>), W(2, <<6>>)>>

ResourceJobs ==
  {[J EXCEPT !.kind = "positional", !.calls = Apart, !.concurrent = TRUE, !.create = TRUE],
   [J EXCEPT !.kind = "positional", !.calls = Apart, !.concurrent = TRUE, !.ends = "abort",
             !.abortable = TRUE],
   [J EXCEPT !.kind = "positional", !.calls = <<W(1, <<4, 5>>), T(2), W(3, <<6>>)>>],
   [J EXCEPT !.kind = "sync", !.create = TRUE,
             !.calls = <<W(Here, <<4, 5>>), T(1), W(Here, <<6>>), W(0, <<7>>)>>]}

MemoryJobs ==
  {[J EXCEPT !.kind = "session", !.keep = TRUE, !.calls = <<W(1, <<4>>), W(Here, <<5, 6>>)>>],
   [J EXCEPT !.kind = "session", !.calls = <<W(1, <<7>>), T(1), W(Here, <<8>>)>>],
   [J EXCEPT !.kind = "session", !.keep = TRUE, !.calls = <<W(0, <<4>>)>>, !.ends = "abort"],
   [J EXCEPT !.kind = "read", !.at = 1, !.length = 1],
   [J EXCEPT !.kind = "read", !.at = 2, !.length = 5]}

MCJobs ==
  {[c \in BothClients |-> IF c = c1 THEN one ELSE other] :
     one \in WriteJobs \cup ResourceJobs \cup MemoryJobs,
     other \in {J1 \in WriteJobs : J1.mode = "replace"}
          \cup {J2 \in ResourceJobs : J2.concurrent /\ J2.create}}

\* Where the calls of a positional file overlap on Deno, SuccessIsExact and
\* DamageIsConfined say nothing and the states multiply: one client is enough.
MCInit == Init /\ (driver = "deno" => ~job[c1].concurrent)

MCSpec == MCInit /\ [][Next]_vars /\ Fairness
=============================================================================
