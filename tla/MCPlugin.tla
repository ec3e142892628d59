------------------------------ MODULE MCPlugin ------------------------------
(***************************************************************************)
(* The configurations of Plugin: every one that is usable, and every one   *)
(* that has one thing wrong.                                               *)
(***************************************************************************)
EXTENDS Plugin

Plain ==
    [token |-> TRUE, url |-> "good", prefix |-> "good", metrics |-> "on",
     endpoint |-> "unix", service |-> TRUE, idFile |-> "good", port |-> TRUE]

MCUsable ==
    {[Plain EXCEPT !.metrics = m, !.endpoint = e, !.service = s] :
       m \in {"on", "off", "garbage"}, e \in {"unix", "tcp"}, s \in BOOLEAN}
    \cup {[Plain EXCEPT !.idFile = "absent"]}

MCWrong ==
    {[Plain EXCEPT !.token = FALSE], [Plain EXCEPT !.url = "bad"],
     [Plain EXCEPT !.prefix = "long"], [Plain EXCEPT !.prefix = "badchar"],
     [Plain EXCEPT !.endpoint = "other"], [Plain EXCEPT !.port = FALSE],
     [Plain EXCEPT !.service = FALSE, !.idFile = "absent"],
     [Plain EXCEPT !.service = FALSE, !.idFile = "garbage"]}

MCConfigs == MCUsable \cup MCWrong

=============================================================================
