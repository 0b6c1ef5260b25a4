-------------------------- MODULE MCWindowConsumer --------------------------
(* The attribute values of the TLC run: each class with the settings that      *)
(* change its control, with and without a prefix whose last component is the   *)
(* number Data is then taken for.                                              *)
EXTENDS WindowConsumer

Plain ==
  [kind |-> "window", prefix |-> NotANumber, startSeq |-> 0, maxSeq |-> 3,
   size |-> -1, payload |-> 1, initial |-> 1, reset |-> TRUE, cwa |-> TRUE,
   marks |-> TRUE, algorithm |-> "AIMD", batches |-> <<>>, blank |-> FALSE,
   contents |-> 2]

\* A window of zero sends on a timer; a size of three payloads asks for four.
WindowAttributes ==
  {[Plain EXCEPT !.initial = w, !.reset = r, !.prefix = p] :
     w \in {0, 2}, r \in BOOLEAN, p \in {NotANumber, 0}}
  \cup {[Plain EXCEPT !.size = 2, !.maxSeq = 1, !.prefix = 1]}

Pcon(S) ==
  {[Plain EXCEPT !.kind = "pcon", !.initial = t[1], !.prefix = t[2],
                 !.algorithm = t[3], !.cwa = t[4]] : t \in S}
PconAttributes ==
  Pcon({2} \X {NotANumber, 1} \X {"AIMD", "BIC", "CUBIC"} \X BOOLEAN)
  \cup Pcon({0} \X {1} \X {"AIMD", "BIC", "CUBIC"} \X {TRUE})
  \cup Pcon({0} \X {1} \X {"CUBIC"} \X {FALSE})
  \cup {[Plain EXCEPT !.kind = "pcon", !.marks = FALSE, !.prefix = 0, !.startSeq = 1]}

BatchAttributes ==
  {[Plain EXCEPT !.kind = "batches", !.batches = <<1, 2>>, !.prefix = 0],
   [Plain EXCEPT !.kind = "batches", !.batches = <<2>>, !.blank = TRUE],
   [Plain EXCEPT !.kind = "batches"]}

ZipfAttributes ==
  {[Plain EXCEPT !.kind = "zipf", !.contents = n, !.prefix = p] :
     n \in {0, 2}, p \in {NotANumber, 1}}

MCAttributes == WindowAttributes \cup PconAttributes \cup BatchAttributes \cup ZipfAttributes
MCGarbage == {0, 1}

\* A packet for each number, and one more: what opens the window for good.
MCLeaps == {Unit * (MaxFresh + 2)}
=============================================================================
