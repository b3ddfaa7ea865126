------------------------ MODULE MCAsyncProxyProvider ------------------------
(* Requests and responses of two classes.                                  *)
EXTENDS AsyncProxyProvider

CONSTANTS a, b,           \* the classes
          OfB             \* the requests and responses of class b

MCClass == [x \in Requests \cup Responses |-> IF x \in OfB THEN b ELSE a]
=============================================================================
