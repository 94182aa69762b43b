------------------------------- MODULE MCLocker -------------------------------
(* Locker with three goroutines, two names and as many entry objects as can be *)
(* referred to at once (one per goroutine).                                    *)
EXTENDS Locker
===============================================================================
