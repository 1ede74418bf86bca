------------------------------- MODULE Requests -------------------------------
(* What the request handlers of the server share: the futures that run      *)
(* them.  A handler gives up its thread at every await, so any number of    *)
(* requests, also of one user, are under way at a time.                     *)

CONSTANTS
    UserId,        \* the users
    Request,       \* the futures that serve requests, used again and again
    None           \* the Option::None of the code, and an idle future

ASSUME NoneIsNobody == None \notin UserId
===============================================================================
