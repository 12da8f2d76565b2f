---------------------------- MODULE SessionProofs ----------------------------
(***************************************************************************)
(* SessionInv is inductive, for any number of requests: a disabled form    *)
(* waits for a request of its own, and a sign-out settles its own token.   *)
(*                                                                         *)
(* The conjuncts are proved in four groups: the types, the forms with the  *)
(* requests of the page on the screen, the store with the page it admits,  *)
(* and the sign-outs.                                                      *)
(***************************************************************************)
EXTENDS Session, TLAPS

USE SessionNone

(* The forms wait for requests, which have a kind and a page.              *)
Forms ==
    /\ BlockedFormWaits
    /\ \A r \in Reqs : pc[r] = "flying" => ask[r] # None
    /\ \A r \in ours : ask[r] # None /\ page = FormOf[ask[r]]
    /\ \A r \in timers : pc[r] = "over"

(* The token came with an answer and admits the page on the screen.        *)
Store ==
    /\ token # None => pc[token] = "over"
    /\ page \in Protected => token # None
    /\ dialog => page = "setting"

(* A sign-out has its token in the store, or none, or a crossed one.       *)
SignOuts ==
    /\ SignOutSettles
    /\ ended \subseteq {r \in Reqs : pc[r] = "over"}
    /\ \A l \in SigningOut : /\ bearer[l] # None
                             /\ pc[bearer[l]] = "over"
                             /\ token \in {None, bearer[l]} \cup crossed
    /\ \A l \in timers : ask[l] = "logout" => bearer[l] \in ended

LEMMA Parts == SessionInv <=> SessionTypeOK /\ Forms /\ Store /\ SignOuts
  BY DEF SessionInv, Forms, Store, SignOuts

LEMMA KindSet ==
    Kinds = {"login", "register", "verifyLogin", "verifyRegister", "resend", "code",
             "forgot", "reset", "profile", "logout"}
  BY DEF Kinds, FormOf

LEMMA PageOf ==
    /\ FormOf["forgot"] = "forgot" /\ FormOf["reset"] = "reset"
    /\ FormOf["logout"] = "setting"
  BY DEF FormOf

LEMMA LocalSet ==
    Local = {"verifyLogin", "verifyRegister", "resend", "code", "forgot", "reset", "profile"}
  BY KindSet DEF Local, Stored

LEMMA InitInv == Init => SessionInv
<1> SUFFICES ASSUME Init PROVE SessionInv
  OBVIOUS
<1> USE DEF Init
<1>1. SessionTypeOK
  <2>1. resends \in 0..3 /\ page \in Pages /\ trail \subseteq Pages
    BY DEF Pages
  <2>2. fetching \in [Stored -> BOOLEAN]
    OBVIOUS
  <2>3. /\ ask \in [Reqs -> Kinds \cup {None}]
        /\ pc \in [Reqs -> {"idle", "flying", "over"}]
        /\ bearer \in [Reqs -> Reqs \cup {None}]
    OBVIOUS
  <2> QED
    BY <2>1, <2>2, <2>3 DEF SessionTypeOK
<1>2. Forms
  BY DEF Forms, BlockedFormWaits, Stored
<1>3. Store
  BY DEF Store, Protected
<1>4. SignOuts
  BY DEF SignOuts, SignOutSettles, SigningOut
<1> QED
  BY <1>1, <1>2, <1>3, <1>4, Parts

(* navigate() stays on the page with all its state, or begins a new one;   *)
(* a protected page needs the token of that moment.                        *)
LEMMA GotoCases ==
    ASSUME SessionTypeOK, NEW p \in Pages, NEW t, Goto(p, t)
    PROVE  /\ page' \in Pages /\ trail' \subseteq Pages
           /\ page' \in Protected => t # None
           /\ \/ page' = page /\ UNCHANGED formVars
              \/ Unmounted
  BY DEF Goto, Shown, SessionTypeOK, Pages, Protected

LEMMA GotoTypes ==
    ASSUME SessionTypeOK, NEW p \in Pages, NEW t, Goto(p, t)
    PROVE  /\ page' \in Pages /\ trail' \subseteq Pages /\ isLoading' \in BOOLEAN
           /\ resends' \in 0..3 /\ dialog' \in BOOLEAN /\ ours' \subseteq Reqs /\ stuck' \in BOOLEAN
<1>1. /\ page' \in Pages /\ trail' \subseteq Pages
      /\ UNCHANGED formVars \/ Unmounted
  BY GotoCases
<1>2. CASE UNCHANGED formVars
  BY <1>1, <1>2 DEF SessionTypeOK, formVars
<1>3. CASE Unmounted
  <2>1. resends' \in 0..3
    BY <1>3 DEF Unmounted
  <2> QED
    BY <1>1, <1>3, <2>1 DEF Unmounted
<1> QED
  BY <1>1, <1>2, <1>3

(* What a step must do about the forms when it sends and ends no request.  *)
LEMMA FormsAfterGoto ==
    ASSUME SessionInv, NEW p \in Pages, NEW t, Goto(p, t),
           UNCHANGED <<fetching, reqVars, orphaned>>, timers' \subseteq timers
    PROVE  Forms'
<1>1. \/ page' = page /\ UNCHANGED formVars
      \/ Unmounted
  BY GotoCases DEF SessionInv
<1>2. \A k \in Stored : fetching'[k] => Flying(k)' \/ k \in orphaned'
  BY DEF SessionInv, BlockedFormWaits, Flying, reqVars
<1>3. isLoading' => stuck' \/ \E r \in ours' : pc'[r] = "flying" /\ ask'[r] \in Local
  BY <1>1 DEF SessionInv, BlockedFormWaits, formVars, Unmounted, reqVars
<1>4. \A r \in ours' : ask'[r] # None /\ page' = FormOf[ask'[r]]
  BY <1>1 DEF SessionInv, formVars, Unmounted, reqVars
<1> QED
  BY <1>2, <1>3, <1>4 DEF SessionInv, Forms, BlockedFormWaits, reqVars

LEMMA StoreAfterGoto ==
    ASSUME SessionInv, NEW p \in Pages, Goto(p, token'), token' # None => pc'[token'] = "over"
    PROVE  Store'
<1>1. /\ page' \in Protected => token' # None
      /\ \/ page' = page /\ UNCHANGED formVars
         \/ Unmounted
  BY GotoCases DEF SessionInv
<1> QED
  BY <1>1 DEF Store, SessionInv, formVars, Unmounted

LEMMA FollowInv == ASSUME SessionInv, NEW p \in Pages, Follow(p) PROVE SessionInv'
<1> USE DEF Follow, storeVars, endVars
<1>0. SessionTypeOK /\ Forms /\ Store /\ SignOuts
  BY Parts
<1>1. SessionTypeOK'
  BY <1>0, GotoTypes DEF SessionTypeOK, reqVars
<1>2. Forms'
  BY FormsAfterGoto
<1>3. Store'
  BY <1>0, StoreAfterGoto DEF Store, reqVars
<1>4. SignOuts'
  BY <1>0 DEF SignOuts, SignOutSettles, SigningOut, reqVars
<1> QED
  BY <1>1, <1>2, <1>3, <1>4, PTL, Parts

(* A page load: what a sign-out's timer would have done is outlived.       *)
LEMMA LoadInv == ASSUME SessionInv, NEW p \in Pages, Load(p) PROVE SessionInv'
<1> USE DEF Load, storeVars
<1>0. SessionTypeOK /\ Forms /\ Store /\ SignOuts
  BY Parts
<1>a. page' \in Pages /\ resends' \in 0..3 /\ outlived' \subseteq Reqs /\ orphaned' \subseteq Stored
  BY <1>0 DEF SessionTypeOK, SignOuts, SigningOut, Shown, Pages, Unmounted
<1>1. SessionTypeOK'
  BY <1>0, <1>a DEF SessionTypeOK, Unmounted
<1>2. Forms'
  BY <1>0 DEF Forms, BlockedFormWaits, Unmounted, SessionTypeOK
<1>3. Store'
  BY <1>0 DEF Store, Shown, Protected, Unmounted, SessionTypeOK
<1>4. SignOuts'
  BY <1>0 DEF SignOuts, SignOutSettles, SigningOut, SessionTypeOK
<1> QED
  BY <1>1, <1>2, <1>3, <1>4, PTL, Parts

-----------------------------------------------------------------------------
(* Requests.                                                               *)

(* A request that is no sign-out leaves the sign-outs as they are.         *)
LEMMA SignOutsAfterSend ==
    ASSUME SessionInv, NEW r \in Reqs, NEW k \in Kinds \ {"logout"}, Send(r, k),
           UNCHANGED <<bearer>>
    PROVE  SignOuts'
<1> USE DEF Send, endVars
<1>0. SessionTypeOK /\ Forms /\ SignOuts
  BY Parts
<1>1. /\ r \notin timers
      /\ \A q \in Reqs \ {r} : pc'[q] = pc[q] /\ ask'[q] = ask[q]
      /\ pc[r] = "idle" /\ ask'[r] # "logout"
  BY <1>0 DEF Forms, SessionTypeOK
<1>2. SigningOut' \subseteq SigningOut
  BY <1>0, <1>1 DEF SigningOut, SessionTypeOK
<1>3. \A q \in Reqs : pc[q] = "over" => pc'[q] = "over"
  BY <1>1
<1>4. SignOutSettles'
  BY <1>0, <1>1 DEF SignOuts, SignOutSettles, SessionTypeOK
<1>5. ended' \subseteq {q \in Reqs : pc'[q] = "over"}
  BY <1>0, <1>3 DEF SignOuts
<1>6. \A l \in SigningOut' : /\ bearer'[l] # None
                              /\ pc'[bearer'[l]] = "over"
                              /\ token' \in {None, bearer'[l]} \cup crossed'
  BY <1>0, <1>2, <1>3 DEF SignOuts, SigningOut, SessionTypeOK
<1>7. \A l \in timers' : ask'[l] = "logout" => bearer'[l] \in ended'
  BY <1>0, <1>1 DEF SignOuts, SessionTypeOK
<1> QED
  BY <1>4, <1>5, <1>6, <1>7 DEF SignOuts

LEMMA SubmitStoredInv ==
    ASSUME SessionInv, NEW r \in Reqs, NEW k \in Kinds, SubmitStored(r, k)
    PROVE  SessionInv'
<1> USE DEF SubmitStored, Send, endVars
<1>0. SessionTypeOK /\ Forms /\ Store /\ SignOuts
  BY Parts
<1>1. SessionTypeOK'
  BY <1>0 DEF SessionTypeOK
<1>2. Forms'
  BY <1>0, LocalSet DEF Forms, BlockedFormWaits, Flying, SessionTypeOK, Stored
<1>3. Store'
  BY <1>0 DEF Store, SessionTypeOK
<1>4. SignOuts'
  BY SignOutsAfterSend, KindSet, LocalSet DEF Stored
<1> QED
  BY <1>1, <1>2, <1>3, <1>4, PTL, Parts

LEMMA SubmitLocalInv ==
    ASSUME SessionInv, NEW r \in Reqs, NEW k \in Kinds, SubmitLocal(r, k)
    PROVE  SessionInv'
<1> USE DEF SubmitLocal, Send, endVars
<1>0. SessionTypeOK /\ Forms /\ Store /\ SignOuts
  BY Parts
<1>1. SessionTypeOK'
  BY <1>0 DEF SessionTypeOK
<1>2. Forms'
  BY <1>0, LocalSet DEF Forms, BlockedFormWaits, Flying, SessionTypeOK, Stored
<1>3. Store'
  BY <1>0 DEF Store, SessionTypeOK
<1>4. SignOuts'
  BY SignOutsAfterSend, KindSet, LocalSet DEF Stored
<1> QED
  BY <1>1, <1>2, <1>3, <1>4, PTL, Parts

LEMMA SetDialogInv ==
    ASSUME SessionInv, NEW open \in BOOLEAN, SetDialog(open)
    PROVE  SessionInv'
<1> USE DEF SetDialog, storeVars, reqVars, endVars
<1>0. SessionTypeOK /\ Forms /\ Store /\ SignOuts
  BY Parts
<1>1. SessionTypeOK'
  BY <1>0 DEF SessionTypeOK
<1>2. Forms'
  BY <1>0 DEF Forms, BlockedFormWaits, Flying
<1>3. Store'
  BY <1>0 DEF Store
<1>4. SignOuts'
  BY <1>0 DEF SignOuts, SignOutSettles, SigningOut
<1> QED
  BY <1>1, <1>2, <1>3, <1>4, PTL, Parts

(* The sign-out carries the token the protected page has.                 *)
LEMMA LogOutInv == ASSUME SessionInv, NEW r \in Reqs, LogOut(r) PROVE SessionInv'
<1> USE DEF LogOut, Send, endVars
<1>0. SessionTypeOK /\ Forms /\ Store /\ SignOuts
  BY Parts
<1>1. SessionTypeOK'
  BY <1>0, KindSet DEF SessionTypeOK
<1>2. Forms'
  BY <1>0, KindSet, LocalSet DEF Forms, BlockedFormWaits, Flying, SessionTypeOK, Stored
<1>3. Store'
  BY <1>0 DEF Store, SessionTypeOK
<1>4. SignOuts'
  <2>1. token \in Reqs /\ token # r /\ pc[token] = "over"
    BY <1>0 DEF Store, Protected, SessionTypeOK
  <2>2. /\ r \notin timers
        /\ \A q \in Reqs \ {r} : pc'[q] = pc[q] /\ ask'[q] = ask[q] /\ bearer'[q] = bearer[q]
        /\ bearer'[r] = token /\ pc[r] = "idle"
    BY <1>0 DEF Forms, SessionTypeOK
  <2>3. SigningOut' \subseteq SigningOut \cup {r}
    BY <1>0, <2>2 DEF SigningOut, SessionTypeOK
  <2>4. \A q \in Reqs : pc[q] = "over" => pc'[q] = "over"
    BY <2>2
  <2>5. SignOutSettles'
    BY <1>0, <2>2 DEF SignOuts, SignOutSettles, SessionTypeOK
  <2>6. ended' \subseteq {q \in Reqs : pc'[q] = "over"}
    BY <1>0, <2>4 DEF SignOuts
  <2>7. \A l \in SigningOut' : /\ bearer'[l] # None
                                /\ pc'[bearer'[l]] = "over"
                                /\ token' \in {None, bearer'[l]} \cup crossed'
    BY <1>0, <2>1, <2>2, <2>3, <2>4 DEF SignOuts, SigningOut, SessionTypeOK
  <2>8. \A l \in timers' : ask'[l] = "logout" => bearer'[l] \in ended'
    BY <1>0, <2>2 DEF SignOuts, SessionTypeOK
  <2> QED
    BY <2>5, <2>6, <2>7, <2>8 DEF SignOuts
<1> QED
  BY <1>1, <1>2, <1>3, <1>4, PTL, Parts

-----------------------------------------------------------------------------
(* Answers.                                                                *)

(* A token that comes while a sign-out is under way is crossed.            *)
LEMMA LoggedInInv == ASSUME SessionInv, NEW r \in Reqs, LoggedIn(r) PROVE SessionInv'
<1> USE DEF LoggedIn, Over, Settled, TakeToken
<1>0. SessionTypeOK /\ Forms /\ Store /\ SignOuts
  BY Parts
<1>1. SessionTypeOK'
  BY <1>0, GotoTypes DEF SessionTypeOK, Pages
<1>2. Forms'
  BY <1>0, GotoCases, LocalSet
  DEF Forms, BlockedFormWaits, Flying, SessionTypeOK, Stored, Unmounted, formVars, Pages
<1>3. Store'
  BY <1>0, StoreAfterGoto DEF SessionTypeOK, Pages
<1>4. SignOuts'
  BY <1>0 DEF SignOuts, SignOutSettles, SigningOut, SessionTypeOK
<1> QED
  BY <1>1, <1>2, <1>3, <1>4, PTL, Parts

LEMMA RegisteredInv == ASSUME SessionInv, NEW r \in Reqs, Registered(r) PROVE SessionInv'
<1> USE DEF Registered, Over, Settled, screen, formVars, endVars
<1>0. SessionTypeOK /\ Forms /\ Store /\ SignOuts
  BY Parts
<1>1. SessionTypeOK'
  BY <1>0 DEF SessionTypeOK
<1>2. Forms'
  BY <1>0, LocalSet DEF Forms, BlockedFormWaits, Flying, SessionTypeOK, Stored
<1>3. Store'
  BY <1>0 DEF Store, SessionTypeOK
<1>4. SignOuts'
  BY <1>0 DEF SignOuts, SignOutSettles, SigningOut, SessionTypeOK
<1> QED
  BY <1>1, <1>2, <1>3, <1>4, PTL, Parts

LEMMA VerifiedInv ==
    ASSUME SessionInv, NEW r \in Reqs, NEW k \in Kinds, Verified(r, k)
    PROVE  SessionInv'
<1> USE DEF Verified, Over, TakeToken, Loaded, Later
<1>0. SessionTypeOK /\ Forms /\ Store /\ SignOuts
  BY Parts
<1>1. SessionTypeOK'
  BY <1>0 DEF SessionTypeOK
<1>2. Forms'
  BY <1>0, LocalSet DEF Forms, BlockedFormWaits, Flying, SessionTypeOK, Stored
<1>3. Store'
  BY <1>0 DEF Store, SessionTypeOK
<1>4. SignOuts'
  BY <1>0 DEF SignOuts, SignOutSettles, SigningOut, SessionTypeOK
<1> QED
  BY <1>1, <1>2, <1>3, <1>4, PTL, Parts

LEMMA CodeSetInv == ASSUME SessionInv, NEW r \in Reqs, CodeSet(r) PROVE SessionInv'
<1> USE DEF CodeSet, Over, Loaded, Later, storeVars, endVars
<1>0. SessionTypeOK /\ Forms /\ Store /\ SignOuts
  BY Parts
<1>1. SessionTypeOK'
  BY <1>0 DEF SessionTypeOK
<1>2. Forms'
  BY <1>0, LocalSet DEF Forms, BlockedFormWaits, Flying, SessionTypeOK, Stored
<1>3. Store'
  BY <1>0 DEF Store, SessionTypeOK
<1>4. SignOuts'
  BY <1>0 DEF SignOuts, SignOutSettles, SigningOut, SessionTypeOK
<1> QED
  BY <1>1, <1>2, <1>3, <1>4, PTL, Parts

LEMMA DoneInv ==
    ASSUME SessionInv, NEW r \in Reqs, NEW k \in Kinds, Done(r, k)
    PROVE  SessionInv'
<1> USE DEF Done, Over, Loaded, storeVars, endVars
<1>0. SessionTypeOK /\ Forms /\ Store /\ SignOuts
  BY Parts
<1>1. SessionTypeOK'
  BY <1>0 DEF SessionTypeOK
<1>2. Forms'
  BY <1>0, LocalSet DEF Forms, BlockedFormWaits, Flying, SessionTypeOK, Stored
<1>3. Store'
  BY <1>0 DEF Store, SessionTypeOK
<1>4. SignOuts'
  BY <1>0 DEF SignOuts, SignOutSettles, SigningOut, SessionTypeOK
<1> QED
  BY <1>1, <1>2, <1>3, <1>4, PTL, Parts

(* The form that navigates leaves isLoading behind with its page.          *)
LEMMA RecoveredInv ==
    ASSUME SessionInv, NEW r \in Reqs, NEW k \in Kinds, Recovered(r, k)
    PROVE  SessionInv'
<1> USE DEF Recovered, Over, storeVars, endVars
<1>0. SessionTypeOK /\ Forms /\ Store /\ SignOuts
  BY Parts
<1>1. SessionTypeOK'
  BY <1>0, GotoTypes DEF SessionTypeOK, Pages
<1>2. Forms'
  <2>1. /\ fetching' = fetching /\ ask' = ask /\ timers' = timers /\ orphaned' = orphaned
        /\ pc' = [pc EXCEPT ![r] = "over"] /\ pc[r] = "flying" /\ ask[r] = k
    BY DEF reqVars
  <2>2. \A q \in Reqs \ {r} : pc'[q] = pc[q]
    BY <1>0, <2>1 DEF SessionTypeOK
  <2>3. pc'[r] = "over"
    BY <1>0, <2>1 DEF SessionTypeOK
  <2>4. \/ page' = page /\ UNCHANGED formVars
        \/ Unmounted
    BY <1>0, GotoCases DEF Pages
  <2>5. page' # page \/ r \notin ours
    BY <1>0, <2>1, PageOf DEF Forms, Goto, Shown, Protected
  <2>6. \A kind \in Stored : fetching'[kind] => Flying(kind)' \/ kind \in orphaned'
    BY <1>0, <2>1, <2>2 DEF Forms, BlockedFormWaits, Flying, Stored
  <2>7. isLoading' => stuck' \/ \E q \in ours' : pc'[q] = "flying" /\ ask'[q] \in Local
    BY <1>0, <2>1, <2>2, <2>4, <2>5
       DEF Forms, BlockedFormWaits, formVars, Unmounted, Goto, SessionTypeOK
  <2>8. \A q \in ours' : ask'[q] # None /\ page' = FormOf[ask'[q]]
    BY <1>0, <2>1, <2>4 DEF Forms, formVars, Unmounted
  <2>9. \A q \in Reqs : pc'[q] = "flying" => ask'[q] # None
    BY <1>0, <2>1, <2>2, <2>3 DEF Forms
  <2>10. \A q \in timers' : pc'[q] = "over"
    BY <1>0, <2>1, <2>2, <2>3 DEF Forms, SessionTypeOK
  <2> QED
    BY <2>6, <2>7, <2>8, <2>9, <2>10 DEF Forms, BlockedFormWaits
<1>3. Store'
  BY <1>0, StoreAfterGoto DEF SessionTypeOK, Pages, Store
<1>4. SignOuts'
  BY <1>0 DEF SignOuts, SignOutSettles, SigningOut, SessionTypeOK
<1> QED
  BY <1>1, <1>2, <1>3, <1>4, PTL, Parts

LEMMA LoggedOutInv == ASSUME SessionInv, NEW r \in Reqs, LoggedOut(r) PROVE SessionInv'
<1> USE DEF LoggedOut, Over, Later, storeVars
<1>0. SessionTypeOK /\ Forms /\ Store /\ SignOuts
  BY Parts
<1>a. r \in SigningOut /\ bearer[r] \in Reqs /\ pc[bearer[r]] = "over"
  BY <1>0 DEF SignOuts, SigningOut, SessionTypeOK
<1>1. SessionTypeOK'
  BY <1>0, <1>a DEF SessionTypeOK
<1>2. Forms'
  <2>1. /\ \A q \in Reqs \ {r} : pc'[q] = pc[q]
        /\ pc'[r] = "over" /\ ask[r] = "logout"
    BY <1>0 DEF SessionTypeOK
  <2>2. \A k \in Stored : fetching'[k] => Flying(k)' \/ k \in orphaned'
    BY <1>0, <2>1 DEF Forms, BlockedFormWaits, Flying, Stored
  <2>3. isLoading' => stuck' \/ \E q \in ours' : pc'[q] = "flying" /\ ask'[q] \in Local
    BY <1>0, <2>1, LocalSet DEF Forms, BlockedFormWaits, SessionTypeOK
  <2> QED
    BY <1>0, <2>1, <2>2, <2>3 DEF Forms, BlockedFormWaits, SessionTypeOK
<1>3. Store'
  BY <1>0 DEF Store, SessionTypeOK
<1>4. SignOuts'
  BY <1>0, <1>a DEF SignOuts, SignOutSettles, SigningOut, SessionTypeOK
<1> QED
  BY <1>1, <1>2, <1>3, <1>4, PTL, Parts

LEMMA FailsInv ==
    ASSUME SessionInv, NEW r \in Reqs, NEW how \in {"refused", "lost"}, Fails(r, how)
    PROVE  SessionInv'
<1> USE DEF Fails, Over, Settled, Loaded, Forgets, endVars
<1>0. SessionTypeOK /\ Forms /\ Store /\ SignOuts
  BY Parts
<1>1. SessionTypeOK'
  BY <1>0 DEF SessionTypeOK
<1>2. Forms'
  BY <1>0, LocalSet DEF Forms, BlockedFormWaits, Flying, SessionTypeOK, Stored
<1>3. Store'
  BY <1>0 DEF Store, SessionTypeOK
<1>4. SignOuts'
  BY <1>0 DEF SignOuts, SignOutSettles, SigningOut, SessionTypeOK
<1> QED
  BY <1>1, <1>2, <1>3, <1>4, PTL, Parts

-----------------------------------------------------------------------------
(* Timers.                                                                 *)

LEMMA NavigateLaterInv ==
    ASSUME SessionInv, NEW r \in Reqs, NavigateLater(r)
    PROVE  SessionInv'
<1> USE DEF NavigateLater, storeVars, endVars
<1>0. SessionTypeOK /\ Forms /\ Store /\ SignOuts
  BY Parts
<1>1. SessionTypeOK'
  BY <1>0, GotoTypes DEF SessionTypeOK, Pages, reqVars
<1>2. Forms'
  BY FormsAfterGoto DEF Pages
<1>3. Store'
  BY <1>0, StoreAfterGoto DEF Pages, Store, reqVars
<1>4. SignOuts'
  BY <1>0 DEF SignOuts, SignOutSettles, SigningOut, reqVars
<1> QED
  BY <1>1, <1>2, <1>3, <1>4, PTL, Parts

(* The timer takes its own ended token, or one that crossed the sign-out.  *)
LEMMA RemoveTokenInv ==
    ASSUME SessionInv, NEW r \in Reqs, RemoveToken(r)
    PROVE  SessionInv'
<1> USE DEF RemoveToken
<1>0. SessionTypeOK /\ Forms /\ Store /\ SignOuts
  BY Parts
<1>a. token \in {None} \cup ended \cup crossed
  BY <1>0 DEF SignOuts, SigningOut
<1>1. SessionTypeOK'
  BY <1>0, GotoTypes DEF SessionTypeOK, reqVars
<1>2. Forms'
  BY <1>0, FormsAfterGoto DEF SessionTypeOK
<1>3. Store'
  BY <1>0, StoreAfterGoto DEF SessionTypeOK
<1>4. SignOuts'
  BY <1>0, <1>a DEF SignOuts, SignOutSettles, SigningOut, reqVars
<1> QED
  BY <1>1, <1>2, <1>3, <1>4, PTL, Parts

-----------------------------------------------------------------------------
(* Every step of the pages, their requests and timers keeps SessionInv.    *)
LEMMA NextInv == SessionInv /\ [Next]_vars => SessionInv'
<1> SUFFICES ASSUME SessionInv, [Next]_vars PROVE SessionInv'
  OBVIOUS
<1>1. CASE UNCHANGED vars
  BY <1>1 DEF vars, screen, formVars, storeVars, reqVars, endVars, SessionInv, SessionTypeOK,
     BlockedFormWaits, Flying, SignOutSettles, SigningOut
<1>2. CASE Next
  BY <1>2, FollowInv, LoadInv, SetDialogInv, SubmitStoredInv, SubmitLocalInv, LogOutInv,
     LoggedInInv, RegisteredInv, VerifiedInv, CodeSetInv, DoneInv, RecoveredInv, LoggedOutInv,
     FailsInv, NavigateLaterInv, RemoveTokenInv DEF Next
<1> QED
  BY <1>1, <1>2

(* Type correctness of the client's sign-in pages and store.               *)
THEOREM SessionTypeCorrect == Spec => []SessionTypeOK
<1>1. SessionInv => SessionTypeOK
  BY DEF SessionInv
<1> QED
  BY InitInv, NextInv, <1>1, PTL DEF Spec

(* A disabled form of the pages under /auth and of the profile waits for a *)
(* request of its own, but for the two ways the code leaves one for good.  *)
THEOREM SessionBlockedFormWaits == Spec => []BlockedFormWaits
<1>1. SessionInv => BlockedFormWaits
  BY DEF SessionInv
<1> QED
  BY InitInv, NextInv, <1>1, PTL DEF Spec

(* The timer of profile_tab.tsx's sign-out takes the token that was ended, *)
(* or one that arrived while a sign-out was under way, and an ended token  *)
(* stays only when a page load dropped its timer.                          *)
THEOREM SessionSignOutSettles == Spec => []SignOutSettles
<1>1. SessionInv => SignOutSettles
  BY DEF SessionInv
<1> QED
  BY InitInv, NextInv, <1>1, PTL DEF Spec
=============================================================================
