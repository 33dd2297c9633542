------------------------------ MODULE HttpApi ------------------------------
(***************************************************************************)
(* The registrations together with the rules that every request of the API *)
(* passes on its way to them: the guards of the routes, in Access, and the *)
(* check digits of the validators, in Documents.                           *)
(***************************************************************************)
EXTENDS Catalogue, Access, Documents

\* The rules of Access and Documents are the same in every state, so it is
\* enough to look at them before the first request.
NothingAsked == \A c \in Client : request[c] = NoRequest /\ answer[c] = 0

\* Whoever calls whatever route is answered as the table of the documentation
\* says: the guards of six routers and the ownership check add up to it.
CallersMeetTheMatrix == NothingAsked => TheMatrixIsKept

\* The check digits make one valid document of every base.
CheckDigitsAreUnique == NothingAsked => EveryBaseHasOneDocument
=============================================================================
