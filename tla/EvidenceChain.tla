---------------------------- MODULE EvidenceChain ----------------------------
(***************************************************************************)
(* What a benchmark promises to whoever reads its report, without runners, *)
(* sessions, staged files, commands or crashes: one subject is measured,   *)
(* each sample of it once and all with the same reference recording; what  *)
(* was recorded is published unchanged; only what is complete, and was     *)
(* spoken with the reference of its dataset, is reported.                  *)
(* Stated by docs/voicebench-v1.md and docs/voicebench-comparison-v1.md;   *)
(* BenchmarkEvidence implements it.                                        *)
(***************************************************************************)
CONSTANTS Samples, Identities, Takes, Corpora, Ref

\* Sets of at most one element: what there is of it.
VARIABLES subject,   \* the identity measured, the dataset and the reference
          result,    \* result[i]: the audio of a sample, and the corpus of its text
          published, \* published[i]: the audio under its final name
          complete,
          report

chainVars == <<subject, result, published, complete, report>>

Init ==
    /\ subject = {}
    /\ result = [i \in Samples |-> {}]
    /\ published = [i \in Samples |-> {}]
    /\ complete = FALSE
    /\ report = {}

\* The reference is some corpus's: not always the dataset's own.
Open(d, c, r) ==
    /\ subject = {}
    /\ subject' = {[identity |-> d, dataset |-> c, reference |-> Ref[r]]}
    /\ UNCHANGED <<result, published, complete, report>>

\* A sample is measured once, on the subject and with its reference.
Record(i, c) ==
    /\ ~complete
    /\ result[i] = {}
    /\ \E s \in subject, n \in Takes :
          /\ Ref[c] = s.reference
          /\ result' = [result EXCEPT ![i] = {[audio |-> <<s.identity, n>>, corpus |-> c]}]
    /\ UNCHANGED <<subject, published, complete, report>>

Publish(i) ==
    /\ published[i] = {}
    /\ \E r \in result[i] : published' = [published EXCEPT ![i] = {r.audio}]
    /\ UNCHANGED <<subject, result, complete, report>>

Complete ==
    /\ subject # {}
    /\ \A i \in Samples : published[i] # {}
    /\ complete' = TRUE
    /\ UNCHANGED <<subject, result, published, report>>

\* A report is made once, of all that was published.
Compare ==
    /\ complete
    /\ report = {}
    /\ \E s \in subject, shas \in [Samples -> Identities \X Takes] :
          /\ s.reference = Ref[s.dataset]
          /\ \A i \in Samples : published[i] = {shas[i]}
          /\ report' = {[dataset |-> s.dataset, identity |-> s.identity, shas |-> shas]}
    /\ UNCHANGED <<subject, result, published, complete>>

\* Sessions, failures, crashes and edits show nothing here.
Unseen == UNCHANGED chainVars

Next ==
    \/ Unseen \/ Complete \/ Compare
    \/ \E d \in Identities, c, r \in Corpora : Open(d, c, r)
    \/ \E i \in Samples, c \in Corpora : Record(i, c)
    \/ \E i \in Samples : Publish(i)

Spec == Init /\ [][Next]_chainVars

=============================================================================
