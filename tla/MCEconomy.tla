------------------------------ MODULE MCEconomy ------------------------------
(* Instances of Economy for TLC; the configuration gives constants.        *)
EXTENDS Economy

\* An ordinary task that carries a title, and a daily one.
MCTasks ==
    <<[family |-> "ordinary", needed |-> 1, title |-> 3, after |-> None],
      [family |-> "daily", needed |-> 1, title |-> 0, after |-> None]>>
=============================================================================
