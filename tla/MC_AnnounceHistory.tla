----------------------- MODULE MC_AnnounceHistory -----------------------
(* Small instances of the orchestrator with its history for TLC. *)
EXTENDS AnnounceHistory, TLC

\* Torrents, task slots and job slots are only compared for equality.
OrchestratorSymmetry ==
    Permutations(Torrent) \cup Permutations(Task) \cup Permutations(Job)

\* What an ended task announced is never read again.
OrchestratorView ==
    <<[t \in Task |->
         IF phase[t] = "ended" /\ submitting # t THEN <<"ended">>
         ELSE <<phase[t], target[t], event[t], outcome[t], handler[t]>>],
      running, submitting, permits, awaited, closing,
      poolVars, queueVars, engineVars, doing, credited, historyVars>>
=============================================================================
