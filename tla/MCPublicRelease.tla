-------------------------- MODULE MCPublicRelease --------------------------
(* An instance of PublicRelease for TLC: two batches of one case set, an    *)
(* unsafe one, one of another case set that plans a trial again, and one    *)
(* that states no case set and may be released with either.                 *)
EXTENDS PublicRelease

MCPlanned == [one |-> {"t1"}, two |-> {"t2", "t3"}, unsafe |-> {"t3"}, other |-> {"t1"},
              unstated |-> {"t3"}]
MCCaseSet == [one |-> "a", two |-> "a", unsafe |-> "a", other |-> "b", unstated |-> "none"]
=============================================================================
