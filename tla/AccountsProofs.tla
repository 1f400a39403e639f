--------------------------- MODULE AccountsProofs ---------------------------
(* Theorems about Accounts, for any number of addresses, identities,        *)
(* attempts and handlers, and any bounds.  The inductive invariant is Sound;*)
(* WorldMoves says what a step may do to sessions, links and handlers for   *)
(* Sound to stay, and there is one lemma per handler that it does no more.  *)
EXTENDS Accounts, TLAPS

SessionRow == [owner : Emails, by : Subjects \cup {Local}, password : Nat,
               from : Attempts \cup {None}, live : BOOLEAN]
LinkRow == [owner : Emails, purpose : {"verification", "reset"}, password : Nat,
            live : BOOLEAN, sent : BOOLEAN]
AccountRow == [by : Subjects \cup {Local, None}, password : Nat, verified : BOOLEAN]
Handler == [pc : {"idle", "login", "signed", "found", "mail", "provider", "profile", "session"},
            user : Emails \cup {None}, by : Subjects \cup {Local},
            password : Nat, link : Nat, from : Attempts \cup {None}]

\* What a handler has read, and still holds.
Referring(r) ==
    /\ req[r].pc \in {"login", "signed", "profile", "session"} => req[r].user # None
    /\ req[r].pc \in {"found", "mail"} => req[r].link \in DOMAIN links
Ready(r) ==
    /\ req[r].pc \in {"login", "signed"} => account[req[r].user].by = Local
    /\ req[r].pc \in {"profile", "session"} => account[req[r].user].by = req[r].by
    /\ req[r].from # None => /\ attempt[req[r].from] = "spent"
                             /\ \A s \in DOMAIN sessions : sessions[s].from # req[r].from

\* The parts of the inductive invariant.
SessionsOK ==
    \A s \in DOMAIN sessions :
        /\ sessions[s].by = account[sessions[s].owner].by
        /\ sessions[s].live => sessions[s].password = account[sessions[s].owner].password
        /\ sessions[s].from # None => attempt[sessions[s].from] = "spent"
OneEach ==
    /\ \A s, t \in DOMAIN sessions : sessions[s].from = sessions[t].from /\ s # t => sessions[s].from = None
    /\ \A q, r \in Requests : req[q].from = req[r].from /\ q # r => req[q].from = None
LinksOK ==
    \A l \in DOMAIN links :
        /\ account[links[l].owner].by = Local
        /\ links[l].live => links[l].password = account[links[l].owner].password
Sound == TypeOK /\ SessionsOK /\ OneEach /\ LinksOK /\ NewestLinkOnly /\ \A r \in Requests : Ready(r)

\* The constants that stand for "nobody" and "by password" are nobody's identity.
LEMMA Nobodies ==
    /\ None \notin Emails /\ None \notin Attempts /\ None # Local
    /\ None \notin Subjects /\ Local \notin Subjects
    /\ MaxSessions \in Nat /\ MaxLinks \in Nat /\ MaxChanges \in Nat
BY AccountsAssumption DEF Subjects, DevIdentity

\* TypeOK in the names used here.
LEMMA Types ==
    TypeOK <=> /\ account \in [Emails -> AccountRow]
               /\ sessions \in Seq(SessionRow) /\ links \in Seq(LinkRow)
               /\ attempt \in [Attempts -> {"unborn", "open", "spent"}]
               /\ req \in [Requests -> Handler]
               /\ \A r \in Requests : Referring(r)
BY DEF TypeOK, AccountRow, SessionRow, LinkRow, Handler, Referring

LEMMA TypesAfter ==
    TypeOK' <=> /\ account' \in [Emails -> AccountRow]
                /\ sessions' \in Seq(SessionRow) /\ links' \in Seq(LinkRow)
                /\ attempt' \in [Attempts -> {"unborn", "open", "spent"}]
                /\ req' \in [Requests -> Handler]
                /\ \A r \in Requests : Referring(r)'
BY DEF TypeOK, AccountRow, SessionRow, LinkRow, Handler, Referring

LEMMA InitSound == Init => Sound
<1> SUFFICES ASSUME Init PROVE Sound
    OBVIOUS
<1>1. TypeOK
    <2>1. Idle \in Handler
        BY DEF Idle, Handler
    <2>2. \A r \in Requests : Referring(r)
        BY DEF Init, Referring, Idle
    <2>3. account \in [Emails -> AccountRow]
        BY DEF Init, AccountRow
    <2>4. /\ sessions \in Seq(SessionRow) /\ links \in Seq(LinkRow)
          /\ attempt \in [Attempts -> {"unborn", "open", "spent"}] /\ req \in [Requests -> Handler]
        BY <2>1 DEF Init
    <2> QED BY <2>2, <2>3, <2>4, Types, Zenon
<1>2. \A r \in Requests : Ready(r)
    BY DEF Init, Ready, Idle
<1> QED BY <1>1, <1>2 DEF Init, Sound, SessionsOK, OneEach, LinksOK, NewestLinkOnly, Idle

-----------------------------------------------------------------------------
(* Rows. *)

FewerSessions(new, old) ==
    /\ new \in Seq(SessionRow) /\ Len(new) = Len(old)
    /\ \A s \in DOMAIN old :
        /\ new[s].owner = old[s].owner /\ new[s].by = old[s].by
        /\ new[s].password = old[s].password /\ new[s].from = old[s].from
        /\ new[s].live => old[s].live

FewerLinks(new, old) ==
    /\ new \in Seq(LinkRow) /\ Len(new) = Len(old)
    /\ \A l \in DOMAIN old :
        /\ new[l].owner = old[l].owner /\ new[l].purpose = old[l].purpose
        /\ new[l].password = old[l].password
        /\ new[l].live => old[l].live

\* Ending some sessions, or some links, changes nothing else about them.
LEMMA SessionsEnd ==
    ASSUME NEW old \in Seq(SessionRow), NEW P,
           P \in [DOMAIN old -> BOOLEAN],
           NEW new, new = [s \in DOMAIN old |-> [old[s] EXCEPT !.live = @ /\ P[s]]]
    PROVE  FewerSessions(new, old) /\ \A s \in DOMAIN old : new[s].live => P[s]
<1>1. DOMAIN old = 1..Len(old) /\ Len(old) \in Nat
    OBVIOUS
<1>2. ASSUME NEW s \in DOMAIN old
      PROVE  /\ new[s] \in SessionRow
             /\ new[s].owner = old[s].owner /\ new[s].by = old[s].by
             /\ new[s].password = old[s].password /\ new[s].from = old[s].from
             /\ new[s].live => old[s].live
             /\ new[s].live => P[s]
    <2>1. old[s] \in SessionRow
        OBVIOUS
    <2> QED BY <2>1 DEF SessionRow
<1>3. new \in Seq(SessionRow) /\ Len(new) = Len(old)
    <2>1. new \in [1..Len(old) -> SessionRow]
        BY <1>1, <1>2
    <2> QED BY <1>1, <2>1
<1> QED BY <1>2, <1>3 DEF FewerSessions

LEMMA LinksEnd ==
    ASSUME NEW old \in Seq(LinkRow), NEW P,
           P \in [DOMAIN old -> BOOLEAN],
           NEW new, new = [l \in DOMAIN old |-> [old[l] EXCEPT !.live = @ /\ P[l]]]
    PROVE  FewerLinks(new, old) /\ \A l \in DOMAIN old : new[l].live => P[l]
<1>1. DOMAIN old = 1..Len(old) /\ Len(old) \in Nat
    OBVIOUS
<1>2. ASSUME NEW l \in DOMAIN old
      PROVE  /\ new[l] \in LinkRow
             /\ new[l].owner = old[l].owner /\ new[l].purpose = old[l].purpose
             /\ new[l].password = old[l].password
             /\ new[l].live => old[l].live
             /\ new[l].live => P[l]
    <2>1. old[l] \in LinkRow
        OBVIOUS
    <2> QED BY <2>1 DEF LinkRow
<1>3. new \in Seq(LinkRow) /\ Len(new) = Len(old)
    <2>1. new \in [1..Len(old) -> LinkRow]
        BY <1>1, <1>2
    <2> QED BY <1>1, <2>1
<1> QED BY <1>2, <1>3 DEF FewerLinks

LEMMA SessionAdded ==
    ASSUME NEW old \in Seq(SessionRow), NEW row \in SessionRow
    PROVE  /\ Append(old, row) \in Seq(SessionRow) /\ Len(Append(old, row)) = Len(old) + 1
           /\ DOMAIN Append(old, row) = DOMAIN old \cup {Len(old) + 1}
           /\ Len(old) + 1 \notin DOMAIN old
           /\ \A s \in DOMAIN old : Append(old, row)[s] = old[s]
           /\ Append(old, row)[Len(old) + 1] = row
OBVIOUS

LEMMA LinkAdded ==
    ASSUME NEW old \in Seq(LinkRow), NEW row \in LinkRow
    PROVE  /\ Append(old, row) \in Seq(LinkRow) /\ Len(Append(old, row)) = Len(old) + 1
           /\ DOMAIN Append(old, row) = DOMAIN old \cup {Len(old) + 1}
           /\ Len(old) + 1 \notin DOMAIN old
           /\ \A l \in DOMAIN old : Append(old, row)[l] = old[l]
           /\ Append(old, row)[Len(old) + 1] = row
OBVIOUS

-----------------------------------------------------------------------------
(* Steps. *)

\* What may become of the accounts and attempts: who vouches for an account, once
\* somebody does, and that an attempt is spent.
AccountsMove ==
    /\ \A e \in Emails : account[e].by # None => account'[e].by = account[e].by
    /\ \A a \in Attempts : attempt[a] = "spent" => attempt'[a] = "spent"

\* ... of a session: it stays or ends, and ends if its password is changed, or it
\* is the new one of a handler that has proved enough.
SameSession(s) ==
    /\ s \in DOMAIN sessions
    /\ sessions'[s].owner = sessions[s].owner /\ sessions'[s].by = sessions[s].by
    /\ sessions'[s].password = sessions[s].password /\ sessions'[s].from = sessions[s].from
    /\ sessions'[s].live =>
         /\ sessions[s].live
         /\ account'[sessions[s].owner].password = account[sessions[s].owner].password
NewSession(s) ==
    /\ s = Len(sessions) + 1
    /\ sessions'[s].by = account'[sessions'[s].owner].by
    /\ sessions'[s].password = account'[sessions'[s].owner].password
    /\ sessions'[s].from # None =>
         /\ attempt'[sessions'[s].from] = "spent"
         /\ \A t \in DOMAIN sessions : sessions[t].from # sessions'[s].from
         /\ \A q \in Requests : req'[q].from # sessions'[s].from
SessionsMove == \A s \in DOMAIN sessions' : SameSession(s) \/ NewSession(s)

\* ... of a link: it stays, is used up or superseded, or is the new one.
SameLink(l) ==
    /\ l \in DOMAIN links
    /\ links'[l].owner = links[l].owner /\ links'[l].purpose = links[l].purpose
    /\ links'[l].password = links[l].password
    /\ links'[l].live =>
         /\ links[l].live
         /\ account'[links[l].owner].password = account[links[l].owner].password
BrandNewLink(l) ==
    /\ l = Len(links) + 1
    /\ account'[links'[l].owner].by = Local
    /\ links'[l].password = account'[links'[l].owner].password
    /\ \A k \in DOMAIN links :
         links[k].owner = links'[l].owner /\ links[k].purpose = links'[l].purpose => ~links'[k].live
LinksMove == \A l \in DOMAIN links' : SameLink(l) \/ BrandNewLink(l)

\* ... and of the handlers: the one that takes the step may start on an attempt
\* nobody has used.
HandlersMove ==
    \A q \in Requests :
        \/ req'[q] = req[q]
        \/ /\ Ready(q)'
           /\ \/ req'[q].from \in {None, req[q].from}
              \/ attempt[req'[q].from] # "spent"

LEMMA WorldMoves ==
    ASSUME Sound, TypeOK', AccountsMove, SessionsMove, LinksMove, HandlersMove,
           NEW r, \A q \in Requests \ {r} : req'[q] = req[q]
    PROVE  Sound'
<1> USE DEF Sound
<1>t. /\ account \in [Emails -> AccountRow] /\ sessions \in Seq(SessionRow) /\ links \in Seq(LinkRow)
      /\ attempt \in [Attempts -> {"unborn", "open", "spent"}]
      /\ req \in [Requests -> Handler] /\ req' \in [Requests -> Handler]
      /\ sessions' \in Seq(SessionRow) /\ links' \in Seq(LinkRow)
    BY Types, TypesAfter, Zenon
<1>u. \A q \in Requests : Referring(q) /\ Referring(q)'
    BY Types, TypesAfter, Zenon
<1>1. SessionsOK'
    <2> SUFFICES ASSUME NEW s \in DOMAIN sessions'
                 PROVE  /\ sessions'[s].by = account'[sessions'[s].owner].by
                        /\ sessions'[s].live => sessions'[s].password = account'[sessions'[s].owner].password
                        /\ sessions'[s].from # None => attempt'[sessions'[s].from] = "spent"
        BY DEF SessionsOK
    <2>1. CASE SameSession(s)
        <3>1. s \in DOMAIN sessions /\ sessions[s] \in SessionRow
            BY <1>t, <2>1 DEF SameSession
        <3>2. sessions[s].by = account[sessions[s].owner].by /\ sessions[s].by # None
            BY <3>1, Nobodies DEF SessionsOK, SessionRow
        <3> QED BY <2>1, <3>1, <3>2 DEF SameSession, SessionsOK, AccountsMove, SessionRow
    <2>2. CASE NewSession(s)
        BY <2>2 DEF NewSession
    <2> QED BY <2>1, <2>2 DEF SessionsMove
<1>2. LinksOK'
    <2> SUFFICES ASSUME NEW l \in DOMAIN links'
                 PROVE  /\ account'[links'[l].owner].by = Local
                        /\ links'[l].live => links'[l].password = account'[links'[l].owner].password
        BY DEF LinksOK
    <2>1. CASE SameLink(l)
        <3>1. l \in DOMAIN links /\ links[l] \in LinkRow
            BY <1>t, <2>1 DEF SameLink
        <3> QED BY <2>1, <3>1, Nobodies DEF SameLink, LinksOK, AccountsMove, LinkRow
    <2>2. CASE BrandNewLink(l)
        BY <2>2 DEF BrandNewLink
    <2> QED BY <2>1, <2>2 DEF LinksMove
<1>3. NewestLinkOnly'
    <2> SUFFICES ASSUME NEW i \in DOMAIN links', NEW j \in DOMAIN links', i < j,
                        links'[i].owner = links'[j].owner, links'[i].purpose = links'[j].purpose
                 PROVE  ~links'[i].live
        BY DEF NewestLinkOnly
    <2>1. i \in 1..Len(links') /\ j \in 1..Len(links') /\ Len(links) \in Nat /\ DOMAIN links = 1..Len(links)
        BY <1>t
    <2>2. CASE SameLink(i) /\ SameLink(j)
        BY <2>2 DEF SameLink, NewestLinkOnly
    <2>3. CASE SameLink(i) /\ BrandNewLink(j)
        BY <2>3 DEF SameLink, BrandNewLink
    <2>4. CASE BrandNewLink(i)
        BY <2>1, <2>4 DEF BrandNewLink, SameLink, LinksMove
    <2> QED BY <2>2, <2>3, <2>4 DEF LinksMove
<1>4. ASSUME NEW q \in Requests PROVE Ready(q)'
    <2>1. CASE req'[q] = req[q]
        <3>1. /\ req[q] \in Handler
              /\ req[q].pc \in {"login", "signed", "profile", "session"} => req[q].user \in Emails
            BY <1>t, <1>u DEF Handler, Referring
        <3>2. req[q].pc \in {"login", "signed"} => account'[req[q].user].by = Local
            BY <3>1, Nobodies DEF Ready, AccountsMove
        <3>3. req[q].pc \in {"profile", "session"} => account'[req[q].user].by = req[q].by
            BY <3>1, Nobodies DEF Ready, AccountsMove, Handler
        <3>4. ASSUME req[q].from # None
              PROVE  /\ attempt'[req[q].from] = "spent"
                     /\ \A s \in DOMAIN sessions' : sessions'[s].from # req[q].from
            <4>1. attempt[req[q].from] = "spent" /\ req[q].from \in Attempts
                BY <3>1, <3>4 DEF Ready, Handler
            <4>2. ASSUME NEW s \in DOMAIN sessions' PROVE sessions'[s].from # req[q].from
                BY <2>1, <3>4 DEF SessionsMove, SameSession, NewSession, Ready
            <4> QED BY <4>1, <4>2 DEF AccountsMove
        <3> QED BY <2>1, <3>2, <3>3, <3>4 DEF Ready
    <2> QED BY <2>1 DEF HandlersMove
<1>5. OneEach'
    <2>1. ASSUME NEW s \in DOMAIN sessions', NEW t \in DOMAIN sessions',
                 sessions'[s].from = sessions'[t].from, s # t
          PROVE  sessions'[s].from = None
        <3>1. CASE SameSession(s) /\ SameSession(t)
            BY <2>1, <3>1 DEF SameSession, OneEach
        <3>2. CASE \/ SameSession(s) /\ NewSession(t)
                   \/ NewSession(s) /\ SameSession(t)
            BY <2>1, <3>2 DEF SameSession, NewSession
        <3>3. CASE NewSession(s) /\ NewSession(t)
            BY <2>1, <3>3 DEF NewSession
        <3> QED BY <3>1, <3>2, <3>3 DEF SessionsMove
    <2>2. ASSUME NEW p \in Requests, NEW q \in Requests, req'[p].from = req'[q].from, p # q
          PROVE  req'[p].from = None
        <3>1. ASSUME NEW x \in Requests, NEW y \in Requests, x # y, req'[x].from = req'[y].from,
                     req'[y] = req[y]
              PROVE  req'[x].from = None
            <4>1. req[y].from # None => attempt[req[y].from] = "spent"
                BY DEF Ready
            <4>2. req[x].from = req[y].from => req[x].from = None
                BY <3>1 DEF OneEach
            <4> QED BY <3>1, <4>1, <4>2 DEF HandlersMove
        <3> QED BY <2>2, <3>1
    <2> QED BY <2>1, <2>2 DEF OneEach
<1> QED BY <1>1, <1>2, <1>3, <1>4, <1>5

-----------------------------------------------------------------------------
(* What the pieces of the handlers do. *)

SamePasswords == \A e \in Emails : account'[e].password = account[e].password

\* A transaction of handler r that leaves it at "at".
LEMMA Commits ==
    ASSUME Sound, NEW r \in Requests, NEW at \in Handler, Step(r, at),
           account' \in [Emails -> AccountRow], sessions' \in Seq(SessionRow),
           links' \in Seq(LinkRow), attempt' \in [Attempts -> {"unborn", "open", "spent"}],
           AccountsMove, SessionsMove, LinksMove, Len(links) =< Len(links'),
           Referring(r)', Ready(r)',
           \/ at.from \in {None, req[r].from}
           \/ attempt[at.from] # "spent"
    PROVE  Sound'
<1>1. /\ req \in [Requests -> Handler] /\ links \in Seq(LinkRow)
      /\ \A q \in Requests : Referring(q)
    BY Types, Zenon DEF Sound
<1>2. req' \in [Requests -> Handler] /\ req'[r] = at /\ \A q \in Requests \ {r} : req'[q] = req[q]
    BY <1>1 DEF Step
<1>3. DOMAIN links \subseteq DOMAIN links'
    BY <1>1
<1>4. ASSUME NEW q \in Requests PROVE Referring(q)'
    <2>1. CASE q # r
        BY <1>1, <1>2, <1>3, <2>1 DEF Referring
    <2> QED BY <2>1
<1>5. TypeOK'
    BY <1>2, <1>4, TypesAfter, Zenon
<1>6. HandlersMove
    BY <1>2 DEF HandlersMove
<1> QED BY <1>2, <1>5, <1>6, WorldMoves

LEMMA Idles ==
    /\ Idle \in Handler /\ Idle.from = None
    /\ \A r \in Requests : req'[r] = Idle => Referring(r)' /\ Ready(r)'
BY DEF Idle, Handler, Referring, Ready

LEMMA SessionsStay ==
    ASSUME TypeOK, FewerSessions(sessions', sessions),
           \A s \in DOMAIN sessions : sessions'[s].live =>
             account'[sessions[s].owner].password = account[sessions[s].owner].password
    PROVE  SessionsMove /\ sessions' \in Seq(SessionRow)
<1>1. sessions \in Seq(SessionRow) /\ sessions' \in Seq(SessionRow) /\ Len(sessions') = Len(sessions)
    BY Types, Zenon DEF FewerSessions
<1>2. DOMAIN sessions' = DOMAIN sessions
    BY <1>1
<1> QED BY <1>1, <1>2 DEF SessionsMove, SameSession, FewerSessions

LEMMA SessionOpens ==
    ASSUME TypeOK, NEW kept, FewerSessions(kept, sessions),
           \A s \in DOMAIN sessions : kept[s].live =>
             account'[sessions[s].owner].password = account[sessions[s].owner].password,
           NEW row \in SessionRow, sessions' = Append(kept, row),
           row.by = account'[row.owner].by, row.password = account'[row.owner].password,
           row.from # None => /\ attempt'[row.from] = "spent"
                              /\ \A t \in DOMAIN sessions : sessions[t].from # row.from
                              /\ \A q \in Requests : req'[q].from # row.from
    PROVE  SessionsMove /\ sessions' \in Seq(SessionRow)
<1>1. sessions \in Seq(SessionRow) /\ kept \in Seq(SessionRow) /\ Len(kept) = Len(sessions)
    BY Types, Zenon DEF FewerSessions
<1>2. DOMAIN kept = DOMAIN sessions
    BY <1>1
<1>3. /\ sessions' \in Seq(SessionRow) /\ DOMAIN sessions' = DOMAIN sessions \cup {Len(sessions) + 1}
      /\ \A s \in DOMAIN sessions : sessions'[s] = kept[s]
      /\ sessions'[Len(sessions) + 1] = row
    BY <1>1, <1>2, SessionAdded
<1>4. \A s \in DOMAIN sessions : SameSession(s)
    BY <1>3 DEF SameSession, FewerSessions
<1>5. NewSession(Len(sessions) + 1)
    BY <1>3 DEF NewSession
<1> QED BY <1>3, <1>4, <1>5 DEF SessionsMove

LEMMA LinksStay ==
    ASSUME TypeOK, FewerLinks(links', links),
           \A l \in DOMAIN links : links'[l].live =>
             account'[links[l].owner].password = account[links[l].owner].password
    PROVE  LinksMove /\ links' \in Seq(LinkRow) /\ Len(links') = Len(links)
<1>1. links \in Seq(LinkRow) /\ links' \in Seq(LinkRow) /\ Len(links') = Len(links)
    BY Types, Zenon DEF FewerLinks
<1>2. DOMAIN links' = DOMAIN links
    BY <1>1
<1> QED BY <1>1, <1>2 DEF LinksMove, SameLink, FewerLinks

\* Nothing at all happens to the sessions, or to the links.
LEMMA SessionsUntouched ==
    ASSUME TypeOK, UNCHANGED sessions, SamePasswords
    PROVE  SessionsMove /\ sessions' \in Seq(SessionRow)
<1>1. sessions \in Seq(SessionRow)
    BY Types, Zenon
<1>2. \A s \in DOMAIN sessions : sessions[s].owner \in Emails
    <2>1. ASSUME NEW s \in DOMAIN sessions PROVE sessions[s] \in SessionRow
        BY <1>1
    <2> QED BY <2>1 DEF SessionRow
<1>3. FewerSessions(sessions', sessions)
    BY <1>1 DEF FewerSessions
<1> QED BY <1>2, <1>3, SessionsStay DEF SamePasswords

LEMMA LinksUntouched ==
    ASSUME TypeOK, UNCHANGED links, SamePasswords
    PROVE  LinksMove /\ links' \in Seq(LinkRow) /\ Len(links') = Len(links)
<1>1. links \in Seq(LinkRow)
    BY Types, Zenon
<1>2. \A l \in DOMAIN links : links[l].owner \in Emails
    <2>1. ASSUME NEW l \in DOMAIN links PROVE links[l] \in LinkRow
        BY <1>1
    <2> QED BY <2>1 DEF LinkRow
<1>3. FewerLinks(links', links)
    BY <1>1 DEF FewerLinks
<1> QED BY <1>2, <1>3, LinksStay DEF SamePasswords

\* Forgotten ends the session of a cookie.
LEMMA Forgetting ==
    ASSUME NEW old \in Seq(SessionRow), NEW p
    PROVE  FewerSessions(Forgotten(old, p), old)
<1> DEFINE P == [s \in DOMAIN old |-> s # p]
<1>1. P \in [DOMAIN old -> BOOLEAN]
    OBVIOUS
<1>2. Forgotten(old, p) = [s \in DOMAIN old |-> [old[s] EXCEPT !.live = @ /\ P[s]]]
    BY Zenon DEF Forgotten
<1> HIDE DEF P
<1> QED BY <1>1, <1>2, SessionsEnd

\* SaveLink makes the newest link of its kind, and the only one that works.
LEMMA Saving ==
    ASSUME TypeOK, NEW e \in Emails, NEW purpose \in {"verification", "reset"}, SaveLink(e, purpose),
           SamePasswords, account'[e].by = Local
    PROVE  LinksMove /\ links' \in Seq(LinkRow) /\ Len(links') = Len(links) + 1
<1> DEFINE P == [l \in DOMAIN links |-> ~(links[l].owner = e /\ links[l].purpose = purpose)]
           kept == [l \in DOMAIN links |-> [links[l] EXCEPT !.live = @ /\ P[l]]]
           row == NewLink(e, purpose)
<1>1. links \in Seq(LinkRow) /\ account \in [Emails -> AccountRow]
    BY Types, Zenon
<1>2. P \in [DOMAIN links -> BOOLEAN] /\ links' = Append(kept, row)
    BY Zenon DEF SaveLink
<1>3. \A l \in DOMAIN links : P[l] => ~(links[l].owner = e /\ links[l].purpose = purpose)
    OBVIOUS
<1> HIDE DEF P
<1>4. FewerLinks(kept, links) /\ \A l \in DOMAIN links : kept[l].live => P[l]
    BY <1>1, <1>2, LinksEnd
<1> HIDE DEF kept
<1>5. row \in LinkRow /\ row.owner = e /\ row.purpose = purpose /\ row.password = account[e].password
    BY <1>1 DEF NewLink, LinkRow, AccountRow
<1> HIDE DEF row
<1>6. kept \in Seq(LinkRow) /\ Len(kept) = Len(links)
    BY <1>4 DEF FewerLinks
<1>7. DOMAIN kept = DOMAIN links
    BY <1>1, <1>6
<1>8. /\ links' \in Seq(LinkRow) /\ DOMAIN links' = DOMAIN links \cup {Len(links) + 1}
      /\ Len(links') = Len(links) + 1
      /\ \A l \in DOMAIN links : links'[l] = kept[l]
      /\ links'[Len(links) + 1] = row
    BY <1>2, <1>5, <1>6, <1>7, LinkAdded
<1>9. ASSUME NEW l \in DOMAIN links PROVE SameLink(l)
    <2>1. links[l].owner \in Emails
        <3>1. links[l] \in LinkRow
            BY <1>1
        <3> QED BY <3>1 DEF LinkRow
    <2> QED BY <1>4, <1>8, <2>1 DEF SameLink, FewerLinks, SamePasswords
<1>10. BrandNewLink(Len(links) + 1)
    BY <1>3, <1>4, <1>5, <1>8 DEF BrandNewLink, SamePasswords
<1> QED BY <1>8, <1>9, <1>10 DEF LinksMove

\* An account that nobody vouched for gets somebody who does.
LEMMA Vouching ==
    ASSUME TypeOK, NEW e \in Emails, account[e].by = None, NEW by \in Subjects \cup {Local},
           account' = [account EXCEPT ![e].by = by]
    PROVE  /\ account' \in [Emails -> AccountRow] /\ SamePasswords
           /\ account'[e].by = by /\ account'[e].password = account[e].password
           /\ \A f \in Emails : account[f].by # None => account'[f].by = account[f].by
<1>1. account \in [Emails -> AccountRow]
    BY Types, Zenon
<1> QED BY <1>1 DEF AccountRow, SamePasswords

\* A handler that has only read something.
LEMMA Reads ==
    ASSUME Sound, NEW r \in Requests, NEW at \in Handler, Step(r, at),
           UNCHANGED <<account, sessions, links, attempt>>, at.from \in {None, req[r].from},
           Referring(r)', Ready(r)'
    PROVE  Sound'
<1>1. /\ account \in [Emails -> AccountRow] /\ TypeOK /\ Len(links) \in Nat
      /\ attempt \in [Attempts -> {"unborn", "open", "spent"}]
    <2>1. links \in Seq(LinkRow) /\ TypeOK
        BY Types, Zenon DEF Sound
    <2>2. Len(links) \in Nat
        BY <2>1
    <2> QED BY <2>1, <2>2, Types, Zenon
<1>2. SamePasswords /\ AccountsMove
    BY DEF SamePasswords, AccountsMove
<1>3. Len(links) =< Len(links')
    BY <1>1
<1> QED BY <1>1, <1>2, <1>3, SessionsUntouched, LinksUntouched, Commits

\* A handler that mails the link it has just made.
LEMMA Mails ==
    ASSUME NEW r \in Requests, req \in [Requests -> Handler], Mailing(r),
           links \in Seq(LinkRow), links' \in Seq(LinkRow), Len(links') = Len(links) + 1
    PROVE  \E at \in Handler : Step(r, at) /\ at.from = None /\ req'[r] = at /\ Referring(r)' /\ Ready(r)'
<1> DEFINE at == [Idle EXCEPT !.pc = "mail", !.link = Len(links) + 1]
<1>1. at \in Handler /\ at.pc = "mail" /\ at.from = None /\ at.link = Len(links) + 1
    <2>1. Len(links) + 1 \in Nat
        OBVIOUS
    <2> QED BY <2>1 DEF Idle, Handler
<1>2. Step(r, at) /\ req'[r] = at
    BY DEF Mailing, Step
<1>3. Len(links) + 1 \in DOMAIN links'
    OBVIOUS
<1> HIDE DEF at
<1>4. Referring(r)' /\ Ready(r)'
    BY <1>1, <1>2, <1>3 DEF Referring, Ready
<1> QED BY <1>1, <1>2, <1>4

LEMMA Ends == ASSUME NEW r \in Requests, req \in [Requests -> Handler], Finish(r)
              PROVE  /\ Step(r, Idle) /\ req'[r] = Idle /\ Idle \in Handler /\ Idle.from = None
                     /\ Referring(r)' /\ Ready(r)'
<1>1. Step(r, Idle) /\ req'[r] = Idle
    BY DEF Finish, Step
<1> QED BY <1>1, Idles

\* A step of no handler.
LEMMA Elsewhere ==
    ASSUME Sound, UNCHANGED req,
           account' \in [Emails -> AccountRow], sessions' \in Seq(SessionRow),
           links' \in Seq(LinkRow), attempt' \in [Attempts -> {"unborn", "open", "spent"}],
           AccountsMove, SessionsMove, LinksMove, Len(links) =< Len(links')
    PROVE  Sound'
<1>1. /\ req \in [Requests -> Handler] /\ links \in Seq(LinkRow)
      /\ \A q \in Requests : Referring(q)
    BY Types, Zenon DEF Sound
<1>2. DOMAIN links \subseteq DOMAIN links'
    BY <1>1
<1>3. \A q \in Requests : Referring(q)'
    BY <1>1, <1>2 DEF Referring
<1>4. TypeOK'
    BY <1>1, <1>3, TypesAfter, Zenon
<1>5. HandlersMove
    BY DEF HandlersMove
<1> QED BY <1>4, <1>5, WorldMoves

-----------------------------------------------------------------------------
(* The handlers. *)

LEMMA RegisterSound ==
    ASSUME Sound, NEW r \in Requests, NEW e \in Emails, NEW p, Register(r, e, p)
    PROVE  Sound'
<1> DEFINE row == Session(e, Local, account[e].password, None)
<1>1. /\ TypeOK /\ sessions \in Seq(SessionRow) /\ links \in Seq(LinkRow)
      /\ req \in [Requests -> Handler] /\ account \in [Emails -> AccountRow]
      /\ attempt' \in [Attempts -> {"unborn", "open", "spent"}]
    BY Types, Zenon DEF Sound, Register
<1>2. /\ account' \in [Emails -> AccountRow] /\ SamePasswords
      /\ account'[e].by = Local /\ account'[e].password = account[e].password
      /\ \A f \in Emails : account[f].by # None => account'[f].by = account[f].by
    BY <1>1, Vouching DEF Register
<1>3. AccountsMove
    BY <1>2 DEF AccountsMove, Register
<1>6. account[e].password \in Nat
    BY <1>1 DEF AccountRow
<1>7. /\ row \in SessionRow /\ row.owner = e /\ row.by = Local /\ row.from = None
      /\ row.password = account[e].password
    BY <1>6 DEF Session, SessionRow
<1> HIDE DEF row
<1>8. SessionsMove /\ sessions' \in Seq(SessionRow)
    <2>1. FewerSessions(Forgotten(sessions, p), sessions) /\ sessions' = Append(Forgotten(sessions, p), row)
        BY <1>1, Forgetting DEF Register, row
    <2>2. \A s \in DOMAIN sessions : sessions[s].owner \in Emails
        <3>1. ASSUME NEW s \in DOMAIN sessions PROVE sessions[s] \in SessionRow
            BY <1>1
        <3> QED BY <3>1 DEF SessionRow
    <2> QED BY <1>1, <1>2, <1>7, <2>1, <2>2, SessionOpens DEF SamePasswords
<1>9. Len(links) \in Nat
    BY <1>1
<1>10. CASE MailAvailable
    <2>1. LinksMove /\ links' \in Seq(LinkRow) /\ Len(links') = Len(links) + 1
        BY <1>1, <1>2, <1>10, Saving DEF Register
    <2>2. PICK at \in Handler :
              Step(r, at) /\ at.from = None /\ req'[r] = at /\ Referring(r)' /\ Ready(r)'
        BY <1>1, <1>10, <2>1, Mails DEF Register
    <2>3. Len(links) =< Len(links')
        BY <1>9, <2>1
    <2> QED BY <1>1, <1>2, <1>3, <1>8, <2>1, <2>2, <2>3, Commits
<1>11. CASE ~MailAvailable
    <2>1. UNCHANGED <<links, req>>
        BY <1>11 DEF Register
    <2>2. LinksMove /\ links' \in Seq(LinkRow) /\ Len(links') = Len(links)
        BY <1>1, <1>2, <2>1, LinksUntouched
    <2> QED BY <1>1, <1>2, <1>3, <1>8, <1>9, <2>1, <2>2, Elsewhere
<1> QED BY <1>10, <1>11

LEMMA TryLoginSound ==
    ASSUME Sound, NEW r \in Requests, NEW e \in Emails, TryLogin(r, e)
    PROVE  Sound'
<1> DEFINE at == [Idle EXCEPT !.pc = "login", !.user = e, !.password = account[e].password]
<1>1. req \in [Requests -> Handler] /\ account \in [Emails -> AccountRow]
    BY Types, Zenon DEF Sound
<1>2. at \in Handler /\ at.pc = "login" /\ at.user = e /\ at.from = None
    BY <1>1 DEF Idle, Handler, AccountRow
<1>3. Step(r, at)
    BY DEF TryLogin
<1> HIDE DEF at
<1>4. req'[r] = at
    BY <1>1, <1>3 DEF Step
<1>5. Referring(r)' /\ Ready(r)'
    BY <1>2, <1>4, Nobodies DEF Referring, Ready, TryLogin
<1> QED BY <1>2, <1>3, <1>5, Reads DEF TryLogin

LEMMA CurrentUserSound ==
    ASSUME Sound, NEW r \in Requests, NEW s \in DOMAIN sessions, CurrentUser(r, s)
    PROVE  Sound'
<1> DEFINE e == sessions[s].owner
           at == [Idle EXCEPT !.pc = "signed", !.user = e, !.password = account[e].password]
<1>1. /\ req \in [Requests -> Handler] /\ account \in [Emails -> AccountRow]
      /\ sessions \in Seq(SessionRow)
    BY Types, Zenon DEF Sound
<1>2. e \in Emails /\ account[e].by = Local
    <2>1. sessions[s] \in SessionRow
        BY <1>1
    <2> QED BY <2>1 DEF SessionRow, Sound, SessionsOK, CurrentUser
<1>3. Step(r, at)
    BY DEF CurrentUser
<1> HIDE DEF e
<1>4. at \in Handler /\ at.pc = "signed" /\ at.user = e /\ at.from = None
    BY <1>1, <1>2 DEF Idle, Handler, AccountRow
<1> HIDE DEF at
<1>5. req'[r] = at
    BY <1>1, <1>3 DEF Step
<1>6. Referring(r)' /\ Ready(r)'
    BY <1>2, <1>4, <1>5, Nobodies DEF Referring, Ready, CurrentUser
<1> QED BY <1>3, <1>4, <1>6, Reads DEF CurrentUser

LEMMA FindLinkSound ==
    ASSUME Sound, NEW r \in Requests, NEW l \in DOMAIN links, FindLink(r, l)
    PROVE  Sound'
<1> DEFINE at == [Idle EXCEPT !.pc = "found", !.link = l]
<1>1. req \in [Requests -> Handler] /\ links \in Seq(LinkRow)
    BY Types, Zenon DEF Sound
<1>2. at \in Handler /\ at.pc = "found" /\ at.link = l /\ at.from = None
    <2>1. l \in Nat
        BY <1>1
    <2> QED BY <2>1 DEF Idle, Handler
<1>3. Step(r, at)
    BY DEF FindLink
<1> HIDE DEF at
<1>4. req'[r] = at
    BY <1>1, <1>3 DEF Step
<1>5. Referring(r)' /\ Ready(r)'
    BY <1>2, <1>4 DEF Referring, Ready, FindLink
<1> QED BY <1>2, <1>3, <1>5, Reads DEF FindLink

LEMMA DroppedSound ==
    ASSUME Sound, NEW r \in Requests, Dropped(r)
    PROVE  Sound'
<1>1. req \in [Requests -> Handler]
    BY Types, Zenon DEF Sound
<1> QED BY <1>1, Ends, Reads DEF Dropped

LEMMA SendLinkSound ==
    ASSUME Sound, NEW r \in Requests, SendLink(r)
    PROVE  Sound'
<1> DEFINE k == req[r].link
<1>1. /\ TypeOK /\ req \in [Requests -> Handler] /\ links \in Seq(LinkRow)
      /\ account \in [Emails -> AccountRow] /\ Referring(r)
      /\ attempt \in [Attempts -> {"unborn", "open", "spent"}]
    BY Types, Zenon DEF Sound
<1>2. k \in DOMAIN links /\ links' = [links EXCEPT ![k].sent = TRUE]
    BY <1>1 DEF SendLink, Referring
<1> HIDE DEF k
<1>3. FewerLinks(links', links)
    <2>1. \A l \in DOMAIN links : links[l] \in LinkRow
        BY <1>1
    <2>2. ASSUME NEW l \in DOMAIN links
          PROVE  /\ links'[l] \in LinkRow
                 /\ links'[l].owner = links[l].owner /\ links'[l].purpose = links[l].purpose
                 /\ links'[l].password = links[l].password
                 /\ links'[l].live => links[l].live
        BY <1>2, <2>1 DEF LinkRow
    <2>3. links' \in Seq(LinkRow) /\ Len(links') = Len(links)
        <3>1. DOMAIN links' = DOMAIN links /\ DOMAIN links = 1..Len(links) /\ Len(links) \in Nat
            BY <1>1, <1>2
        <3>2. links' = [l \in 1..Len(links) |-> links'[l]]
            BY <1>2, <3>1
        <3> QED BY <2>2, <3>1, <3>2
    <2> QED BY <2>2, <2>3 DEF FewerLinks
<1>4. SamePasswords /\ AccountsMove
    BY DEF SamePasswords, AccountsMove, SendLink
<1>5. LinksMove /\ links' \in Seq(LinkRow) /\ Len(links') = Len(links)
    BY <1>1, <1>3, LinksStay DEF SendLink
<1>6. SessionsMove /\ sessions' \in Seq(SessionRow)
    BY <1>1, <1>4, SessionsUntouched DEF SendLink
<1>7. Len(links) =< Len(links')
    BY <1>1, <1>5
<1> QED BY <1>1, <1>4, <1>5, <1>6, <1>7, Ends, Commits DEF SendLink

LEMMA LoginSound ==
    ASSUME Sound, NEW r \in Requests, NEW p, Login(r, p)
    PROVE  Sound'
<1> DEFINE row == Session(req[r].user, Local, req[r].password, None)
<1>1. /\ TypeOK /\ req \in [Requests -> Handler] /\ Referring(r) /\ links \in Seq(LinkRow)
      /\ account \in [Emails -> AccountRow] /\ sessions \in Seq(SessionRow)
      /\ attempt \in [Attempts -> {"unborn", "open", "spent"}]
    BY Types, Zenon DEF Sound
<1>2. /\ req[r].user \in Emails /\ req[r].password = account[req[r].user].password
      /\ account[req[r].user].by = Local
    BY <1>1 DEF Login, Referring, Sound, Ready, Handler, Proves
<1>3. /\ row \in SessionRow /\ row.by = account[row.owner].by
      /\ row.password = account[row.owner].password /\ row.from = None
    BY <1>1, <1>2 DEF Session, SessionRow, AccountRow
<1>4. sessions' = Append(Forgotten(sessions, p), row)
    BY DEF Login
<1> HIDE DEF row
<1>5. SamePasswords /\ AccountsMove
    BY DEF SamePasswords, AccountsMove, Login
<1>6. SessionsMove /\ sessions' \in Seq(SessionRow)
    BY <1>1, <1>3, <1>4, Forgetting, SessionOpens DEF Login
<1>7. LinksMove /\ links' \in Seq(LinkRow) /\ Len(links) =< Len(links')
    <2>1. Len(links) \in Nat
        BY <1>1
    <2> QED BY <1>1, <1>5, <2>1, LinksUntouched DEF Login
<1> QED BY <1>1, <1>5, <1>6, <1>7, Ends, Commits DEF Login

\* The two requests that make a link and mail it.
LEMMA RequestLinkSound ==
    ASSUME Sound, NEW r \in Requests, NEW e \in Emails, NEW purpose \in {"verification", "reset"},
           account[e].by = Local, SaveLink(e, purpose), Mailing(r),
           UNCHANGED <<account, sessions, attempt>>
    PROVE  Sound'
<1>1. /\ TypeOK /\ req \in [Requests -> Handler] /\ links \in Seq(LinkRow)
      /\ account \in [Emails -> AccountRow] /\ attempt \in [Attempts -> {"unborn", "open", "spent"}]
    BY Types, Zenon DEF Sound
<1>2. SamePasswords /\ AccountsMove
    BY DEF SamePasswords, AccountsMove
<1>3. LinksMove /\ links' \in Seq(LinkRow) /\ Len(links') = Len(links) + 1
    BY <1>1, <1>2, Saving
<1>4. SessionsMove /\ sessions' \in Seq(SessionRow)
    BY <1>1, <1>2, SessionsUntouched
<1>5. PICK at \in Handler : Step(r, at) /\ at.from = None /\ Referring(r)' /\ Ready(r)'
    BY <1>1, <1>3, Mails
<1>6. Len(links) =< Len(links')
    BY <1>1, <1>3
<1> QED BY <1>1, <1>2, <1>3, <1>4, <1>5, <1>6, Commits

\* A new password ends every session and every link of its owner.
LEMMA Emptying ==
    ASSUME NEW e
    PROVE  /\ \A old \in Seq(SessionRow) : /\ FewerSessions(WithoutOwner(old, e), old)
                                           /\ \A s \in DOMAIN old : WithoutOwner(old, e)[s].live => old[s].owner # e
           /\ \A old \in Seq(LinkRow) : /\ FewerLinks(WithoutOwner(old, e), old)
                                        /\ \A l \in DOMAIN old : WithoutOwner(old, e)[l].live => old[l].owner # e
<1> DEFINE P(old) == [i \in DOMAIN old |-> old[i].owner # e]
<1>1. ASSUME NEW old
      PROVE  /\ P(old) \in [DOMAIN old -> BOOLEAN]
             /\ \A i \in DOMAIN old : P(old)[i] => old[i].owner # e
             /\ WithoutOwner(old, e) = [i \in DOMAIN old |-> [old[i] EXCEPT !.live = @ /\ P(old)[i]]]
    <2>1. P(old) \in [DOMAIN old -> BOOLEAN] /\ \A i \in DOMAIN old : P(old)[i] => old[i].owner # e
        OBVIOUS
    <2>2. WithoutOwner(old, e) = [i \in DOMAIN old |-> [old[i] EXCEPT !.live = @ /\ P(old)[i]]]
        BY Zenon DEF WithoutOwner
    <2> QED BY <2>1, <2>2
<1> HIDE DEF P
<1>2. ASSUME NEW old \in Seq(SessionRow)
      PROVE  /\ FewerSessions(WithoutOwner(old, e), old)
             /\ \A s \in DOMAIN old : WithoutOwner(old, e)[s].live => old[s].owner # e
    <2>1. /\ FewerSessions(WithoutOwner(old, e), old)
          /\ \A s \in DOMAIN old : WithoutOwner(old, e)[s].live => P(old)[s]
        BY <1>1, <1>2, SessionsEnd
    <2> QED BY <1>1, <2>1
<1>3. ASSUME NEW old \in Seq(LinkRow)
      PROVE  /\ FewerLinks(WithoutOwner(old, e), old)
             /\ \A l \in DOMAIN old : WithoutOwner(old, e)[l].live => old[l].owner # e
    <2>1. /\ FewerLinks(WithoutOwner(old, e), old)
          /\ \A l \in DOMAIN old : WithoutOwner(old, e)[l].live => P(old)[l]
        BY <1>1, <1>3, LinksEnd
    <2> QED BY <1>1, <2>1
<1> QED BY <1>2, <1>3

LEMMA NewPasswordMoves ==
    ASSUME Sound, NEW e \in Emails, NewPassword(e), UNCHANGED attempt
    PROVE  /\ account' \in [Emails -> AccountRow] /\ AccountsMove
           /\ account'[e].password = account[e].password + 1 /\ account'[e].by = account[e].by
           /\ \A f \in Emails \ {e} : account'[f].password = account[f].password
           /\ LinksMove /\ links' \in Seq(LinkRow) /\ Len(links) =< Len(links')
<1>1. TypeOK /\ account \in [Emails -> AccountRow] /\ links \in Seq(LinkRow)
    BY Types, Zenon DEF Sound
<1>2. /\ account' \in [Emails -> AccountRow]
      /\ account'[e].password = account[e].password + 1
      /\ \A f \in Emails : account'[f].by = account[f].by
      /\ \A f \in Emails \ {e} : account'[f].password = account[f].password
    BY <1>1 DEF NewPassword, AccountRow
<1>3. \A l \in DOMAIN links : links[l].owner \in Emails
    <2>1. ASSUME NEW l \in DOMAIN links PROVE links[l] \in LinkRow
        BY <1>1
    <2> QED BY <2>1 DEF LinkRow
<1>4. LinksMove /\ links' \in Seq(LinkRow) /\ Len(links') = Len(links)
    <2>1. links' = WithoutOwner(links, e)
        BY DEF NewPassword
    <2>2. FewerLinks(links', links) /\ \A l \in DOMAIN links : links'[l].live => links[l].owner # e
        BY <1>1, <2>1, Emptying
    <2> QED BY <1>1, <1>2, <1>3, <2>2, LinksStay
<1>5. Len(links) =< Len(links')
    BY <1>1, <1>4
<1> QED BY <1>2, <1>4, <1>5 DEF AccountsMove

LEMMA ChangePasswordSound ==
    ASSUME Sound, NEW r \in Requests, NEW p, ChangePassword(r, p)
    PROVE  Sound'
<1> DEFINE e == req[r].user
           left == WithoutOwner(sessions, e)
           row == Session(e, Local, account[e].password + 1, None)
<1>1. /\ TypeOK /\ req \in [Requests -> Handler] /\ Referring(r)
      /\ account \in [Emails -> AccountRow] /\ sessions \in Seq(SessionRow)
      /\ attempt \in [Attempts -> {"unborn", "open", "spent"}]
    BY Types, Zenon DEF Sound
<1>2. e \in Emails /\ account[e].by = Local
    BY <1>1 DEF ChangePassword, Referring, Sound, Ready, Handler
<1>3. /\ NewPassword(e) /\ UNCHANGED attempt /\ Finish(r)
      /\ sessions' = Append(Forgotten(left, p), row)
    BY DEF ChangePassword
<1>4. FewerSessions(left, sessions) /\ \A s \in DOMAIN sessions : left[s].live => sessions[s].owner # e
    BY <1>1, Emptying
<1>5. row \in SessionRow /\ row.owner = e /\ row.by = Local /\ row.from = None
      /\ row.password = account[e].password + 1
    BY <1>1, <1>2 DEF Session, SessionRow, AccountRow
<1> HIDE DEF e, left, row
<1>6. /\ account' \in [Emails -> AccountRow] /\ AccountsMove
      /\ account'[e].password = account[e].password + 1 /\ account'[e].by = account[e].by
      /\ \A f \in Emails \ {e} : account'[f].password = account[f].password
      /\ LinksMove /\ links' \in Seq(LinkRow) /\ Len(links) =< Len(links')
    BY <1>2, <1>3, NewPasswordMoves
<1>7. FewerSessions(Forgotten(left, p), left)
    BY <1>4, Forgetting DEF FewerSessions
<1>8. FewerSessions(Forgotten(left, p), sessions)
      /\ \A s \in DOMAIN sessions : Forgotten(left, p)[s].live => sessions[s].owner # e
    <2>1. DOMAIN left = DOMAIN sessions
        BY <1>1, <1>4 DEF FewerSessions
    <2> QED BY <1>4, <1>7, <2>1 DEF FewerSessions
<1>9. \A s \in DOMAIN sessions : sessions[s].owner \in Emails
    <2>1. ASSUME NEW s \in DOMAIN sessions PROVE sessions[s] \in SessionRow
        BY <1>1
    <2> QED BY <2>1 DEF SessionRow
<1>10. SessionsMove /\ sessions' \in Seq(SessionRow)
    BY <1>1, <1>2, <1>3, <1>5, <1>6, <1>8, <1>9, SessionOpens
<1> QED BY <1>1, <1>3, <1>6, <1>10, Ends, Commits

LEMMA ResetPasswordSound ==
    ASSUME Sound, NEW r \in Requests, ResetPassword(r)
    PROVE  Sound'
<1> DEFINE e == links[req[r].link].owner
<1>1. /\ TypeOK /\ req \in [Requests -> Handler] /\ Referring(r) /\ links \in Seq(LinkRow)
      /\ account \in [Emails -> AccountRow] /\ sessions \in Seq(SessionRow)
      /\ attempt \in [Attempts -> {"unborn", "open", "spent"}]
    BY Types, Zenon DEF Sound
<1>2. e \in Emails
    <2>1. req[r].link \in DOMAIN links
        BY <1>1 DEF ResetPassword, Referring
    <2>2. links[req[r].link] \in LinkRow
        BY <1>1, <2>1
    <2> QED BY <2>2 DEF LinkRow
<1>3. NewPassword(e) /\ UNCHANGED attempt /\ Finish(r) /\ sessions' = WithoutOwner(sessions, e)
    BY DEF ResetPassword
<1> HIDE DEF e
<1>4. /\ account' \in [Emails -> AccountRow] /\ AccountsMove
      /\ \A f \in Emails \ {e} : account'[f].password = account[f].password
      /\ LinksMove /\ links' \in Seq(LinkRow) /\ Len(links) =< Len(links')
    BY <1>2, <1>3, NewPasswordMoves
<1>5. FewerSessions(sessions', sessions) /\ \A s \in DOMAIN sessions : sessions'[s].live => sessions[s].owner # e
    BY <1>1, <1>3, Emptying
<1>6. \A s \in DOMAIN sessions : sessions[s].owner \in Emails
    <2>1. ASSUME NEW s \in DOMAIN sessions PROVE sessions[s] \in SessionRow
        BY <1>1
    <2> QED BY <2>1 DEF SessionRow
<1>7. SessionsMove /\ sessions' \in Seq(SessionRow)
    BY <1>1, <1>4, <1>5, <1>6, SessionsStay
<1> QED BY <1>1, <1>3, <1>4, <1>7, Ends, Commits

\* A link that is used, or lapses.
LEMMA UsingLink ==
    ASSUME TypeOK, NEW k \in DOMAIN links, links' = [links EXCEPT ![k].live = FALSE], SamePasswords
    PROVE  LinksMove /\ links' \in Seq(LinkRow) /\ Len(links) =< Len(links')
<1> DEFINE P == [l \in DOMAIN links |-> l # k]
<1>1. links \in Seq(LinkRow) /\ P \in [DOMAIN links -> BOOLEAN]
    BY Types, Zenon
<1>2. links' = [l \in DOMAIN links |-> [links[l] EXCEPT !.live = @ /\ P[l]]]
    <2>1. ASSUME NEW l \in DOMAIN links
          PROVE  links'[l] = [links[l] EXCEPT !.live = links[l].live /\ P[l]]
        <3>1. links[l] \in LinkRow
            BY <1>1
        <3> QED BY <3>1 DEF LinkRow
    <2> QED BY <2>1
<1> HIDE DEF P
<1>3. FewerLinks(links', links)
    BY <1>1, <1>2, LinksEnd
<1>4. \A l \in DOMAIN links : links[l].owner \in Emails
    <2>1. ASSUME NEW l \in DOMAIN links PROVE links[l] \in LinkRow
        BY <1>1
    <2> QED BY <2>1 DEF LinkRow
<1>5. LinksMove /\ links' \in Seq(LinkRow) /\ Len(links') = Len(links)
    BY <1>3, <1>4, LinksStay DEF SamePasswords
<1> QED BY <1>1, <1>5

LEMMA VerifyEmailSound ==
    ASSUME Sound, NEW r \in Requests, VerifyEmail(r)
    PROVE  Sound'
<1> DEFINE k == req[r].link
<1>1. /\ TypeOK /\ req \in [Requests -> Handler] /\ Referring(r) /\ links \in Seq(LinkRow)
      /\ account \in [Emails -> AccountRow] /\ attempt \in [Attempts -> {"unborn", "open", "spent"}]
    BY Types, Zenon DEF Sound
<1>2. k \in DOMAIN links
    BY <1>1 DEF VerifyEmail, Referring
<1>3. /\ account' = [account EXCEPT ![links[k].owner].verified = TRUE]
      /\ links' = [links EXCEPT ![k].live = FALSE]
    BY DEF VerifyEmail
<1> HIDE DEF k
<1>4. account' \in [Emails -> AccountRow] /\ SamePasswords /\ AccountsMove
    <2>1. ASSUME NEW f \in Emails
          PROVE  /\ account'[f] \in AccountRow
                 /\ account'[f].by = account[f].by /\ account'[f].password = account[f].password
        <3>1. account[f] \in AccountRow
            BY <1>1
        <3>2. account'[f] = account[f] \/ account'[f] = [account[f] EXCEPT !.verified = TRUE]
            BY <1>1, <1>3
        <3> QED BY <3>1, <3>2 DEF AccountRow
    <2>2. account' \in [Emails -> AccountRow]
        BY <1>1, <1>3, <2>1
    <2> QED BY <2>1, <2>2 DEF SamePasswords, AccountsMove, VerifyEmail
<1>5. LinksMove /\ links' \in Seq(LinkRow) /\ Len(links) =< Len(links')
    BY <1>1, <1>2, <1>3, <1>4, UsingLink
<1>6. SessionsMove /\ sessions' \in Seq(SessionRow)
    BY <1>1, <1>4, SessionsUntouched DEF VerifyEmail
<1> QED BY <1>1, <1>4, <1>5, <1>6, Ends, Commits DEF VerifyEmail

LEMMA CallbackSound ==
    ASSUME Sound, NEW r \in Requests, NEW a \in Attempts, Callback(r, a)
    PROVE  Sound'
<1> DEFINE at == [Idle EXCEPT !.pc = "provider", !.from = a]
<1>1. /\ TypeOK /\ req \in [Requests -> Handler] /\ account \in [Emails -> AccountRow]
      /\ links \in Seq(LinkRow) /\ attempt \in [Attempts -> {"unborn", "open", "spent"}]
    BY Types, Zenon DEF Sound
<1>2. at \in Handler /\ at.pc = "provider" /\ at.from = a
    BY DEF Idle, Handler
<1>3. Step(r, at)
    BY DEF Callback
<1> HIDE DEF at
<1>4. req'[r] = at
    BY <1>1, <1>3 DEF Step
<1>5. /\ attempt' \in [Attempts -> {"unborn", "open", "spent"}] /\ attempt'[a] = "spent"
      /\ \A b \in Attempts : attempt[b] = "spent" => attempt'[b] = "spent"
    BY <1>1 DEF Callback
<1>6. SamePasswords /\ AccountsMove
    BY <1>5 DEF SamePasswords, AccountsMove, Callback
<1>7. /\ SessionsMove /\ sessions' \in Seq(SessionRow)
      /\ LinksMove /\ links' \in Seq(LinkRow) /\ Len(links) =< Len(links')
    <2>1. Len(links) \in Nat
        BY <1>1
    <2> QED BY <1>1, <1>6, <2>1, SessionsUntouched, LinksUntouched DEF Callback
<1>8. \A s \in DOMAIN sessions' : sessions'[s].from # a
    BY Nobodies DEF Callback, Sound, SessionsOK
<1>9. Referring(r)' /\ Ready(r)'
    BY <1>2, <1>4, <1>5, <1>8 DEF Referring, Ready
<1>10. attempt[at.from] # "spent"
    BY <1>2 DEF Callback
<1> QED BY <1>1, <1>2, <1>3, <1>5, <1>6, <1>7, <1>9, <1>10, Commits DEF Callback

LEMMA CreateUserSound ==
    ASSUME Sound, NEW r \in Requests, NEW i \in Subjects, NEW e \in Emails, CreateUser(r, i, e)
    PROVE  Sound'
<1> DEFINE at == [Idle EXCEPT !.pc = "profile", !.user = e, !.by = i, !.from = req[r].from]
<1>1. /\ TypeOK /\ req \in [Requests -> Handler] /\ account \in [Emails -> AccountRow]
      /\ links \in Seq(LinkRow) /\ attempt \in [Attempts -> {"unborn", "open", "spent"}]
    BY Types, Zenon DEF Sound
<1>2. /\ at \in Handler /\ at.pc = "profile" /\ at.user = e /\ at.by = i /\ at.from = req[r].from
    BY <1>1 DEF Idle, Handler
<1>3. Step(r, at)
    BY DEF CreateUser
<1> HIDE DEF at
<1>4. req'[r] = at
    BY <1>1, <1>3 DEF Step
<1>5. /\ account' \in [Emails -> AccountRow] /\ SamePasswords /\ account'[e].by = i
      /\ \A f \in Emails : account[f].by # None => account'[f].by = account[f].by
    <2>1. CASE account[e].by = None
        <3>1. account' = [account EXCEPT ![e].by = i]
            BY <2>1 DEF CreateUser
        <3> QED BY <1>1, <2>1, <3>1, Vouching
    <2>2. CASE account[e].by # None
        <3>1. account[e].by = i
            BY <2>2 DEF CreateUser, MayBe
        <3>2. account' = account
            BY <1>1, <2>2 DEF CreateUser, AccountRow
        <3> QED BY <1>1, <3>1, <3>2 DEF SamePasswords
    <2> QED BY <2>1, <2>2
<1>6. AccountsMove
    BY <1>5 DEF AccountsMove, CreateUser
<1>7. /\ SessionsMove /\ sessions' \in Seq(SessionRow)
      /\ LinksMove /\ links' \in Seq(LinkRow) /\ Len(links) =< Len(links')
    <2>1. Len(links) \in Nat
        BY <1>1
    <2> QED BY <1>1, <1>5, <2>1, SessionsUntouched, LinksUntouched DEF CreateUser
<1>8. Referring(r)' /\ Ready(r)'
    BY <1>2, <1>4, <1>5, Nobodies DEF Referring, Ready, CreateUser, Sound
<1> QED BY <1>1, <1>2, <1>3, <1>5, <1>6, <1>7, <1>8, Commits DEF CreateUser

LEMMA ForgetPreviousSound ==
    ASSUME Sound, NEW r \in Requests, NEW p, ForgetPrevious(r, p)
    PROVE  Sound'
<1> DEFINE at == [req[r] EXCEPT !.pc = "session"]
<1>1. /\ TypeOK /\ req \in [Requests -> Handler] /\ account \in [Emails -> AccountRow] /\ Referring(r)
      /\ links \in Seq(LinkRow) /\ attempt \in [Attempts -> {"unborn", "open", "spent"}]
      /\ sessions \in Seq(SessionRow)
    BY Types, Zenon DEF Sound
<1>2. /\ at \in Handler /\ at.pc = "session" /\ at.user = req[r].user /\ at.by = req[r].by
      /\ at.from = req[r].from
    BY <1>1 DEF Handler
<1>3. Step(r, at)
    BY DEF ForgetPrevious
<1> HIDE DEF at
<1>4. req'[r] = at
    BY <1>1, <1>3 DEF Step
<1>5. SamePasswords /\ AccountsMove
    BY DEF SamePasswords, AccountsMove, ForgetPrevious
<1>6. FewerSessions(sessions', sessions)
    BY <1>1, Forgetting DEF ForgetPrevious
<1>7. SessionsMove /\ sessions' \in Seq(SessionRow)
    BY <1>1, <1>6, SessionsStay DEF ForgetPrevious
<1>8. LinksMove /\ links' \in Seq(LinkRow) /\ Len(links) =< Len(links')
    <2>1. Len(links) \in Nat
        BY <1>1
    <2> QED BY <1>1, <1>5, <2>1, LinksUntouched DEF ForgetPrevious
<1>9. Referring(r)' /\ Ready(r)'
    <2>1. \A s \in DOMAIN sessions' : s \in DOMAIN sessions /\ sessions'[s].from = sessions[s].from
        BY <1>1, <1>6 DEF FewerSessions
    <2> QED BY <1>1, <1>2, <1>4, <2>1 DEF Referring, Ready, ForgetPrevious, Sound
<1> QED BY <1>1, <1>2, <1>3, <1>5, <1>7, <1>8, <1>9, Commits DEF ForgetPrevious

LEMMA StartSessionSound ==
    ASSUME Sound, NEW r \in Requests, StartSession(r)
    PROVE  Sound'
<1> DEFINE row == Session(req[r].user, req[r].by, account[req[r].user].password, req[r].from)
<1>1. /\ TypeOK /\ req \in [Requests -> Handler] /\ Referring(r) /\ links \in Seq(LinkRow)
      /\ account \in [Emails -> AccountRow] /\ sessions \in Seq(SessionRow)
      /\ attempt \in [Attempts -> {"unborn", "open", "spent"}]
    BY Types, Zenon DEF Sound
<1>2. /\ req[r] \in Handler /\ req[r].user \in Emails
      /\ account[req[r].user].by = req[r].by
    BY <1>1 DEF StartSession, Referring, Sound, Ready, Handler
<1>3. /\ row \in SessionRow /\ row.by = account[row.owner].by
      /\ row.password = account[row.owner].password /\ row.from = req[r].from
    BY <1>1, <1>2 DEF Session, SessionRow, AccountRow, Handler
<1>4. sessions' = Append(sessions, row) /\ Finish(r)
    BY DEF StartSession
<1> HIDE DEF row
<1>5. SamePasswords /\ AccountsMove
    BY DEF SamePasswords, AccountsMove, StartSession
<1>6. ASSUME row.from # None
      PROVE  /\ attempt'[row.from] = "spent"
             /\ \A t \in DOMAIN sessions : sessions[t].from # row.from
             /\ \A q \in Requests : req'[q].from # row.from
    <2>1. \A q \in Requests : req'[q] = IF q = r THEN Idle ELSE req[q]
        BY <1>1, <1>4 DEF Finish, Step
    <2>2. \A q \in Requests \ {r} : req[q].from # row.from
        BY <1>3, <1>6 DEF Sound, OneEach
    <2> QED BY <1>3, <1>6, <2>1, <2>2, Idles DEF Sound, Ready, StartSession
<1>7. FewerSessions(sessions, sessions)
    BY <1>1 DEF FewerSessions
<1>8. SessionsMove /\ sessions' \in Seq(SessionRow)
    BY <1>1, <1>3, <1>4, <1>6, <1>7, SessionOpens DEF StartSession
<1>9. LinksMove /\ links' \in Seq(LinkRow) /\ Len(links) =< Len(links')
    <2>1. Len(links) \in Nat
        BY <1>1
    <2> QED BY <1>1, <1>5, <2>1, LinksUntouched DEF StartSession
<1> QED BY <1>1, <1>4, <1>5, <1>8, <1>9, Ends, Commits DEF StartSession

LEMMA OtherSound ==
    ASSUME Sound,
           \/ \E a \in Attempts : BeginSignIn(a)
           \/ \E s \in DOMAIN sessions : Logout(s)
           \/ Lapse
    PROVE  Sound'
<1>1. /\ TypeOK /\ links \in Seq(LinkRow) /\ account \in [Emails -> AccountRow]
      /\ sessions \in Seq(SessionRow) /\ attempt \in [Attempts -> {"unborn", "open", "spent"}]
    BY Types, Zenon DEF Sound
<1>2. Len(links) \in Nat
    BY <1>1
<1>3. UNCHANGED <<account, req>> /\ SamePasswords
    BY DEF BeginSignIn, Logout, Lapse, SamePasswords
<1>4. /\ attempt' \in [Attempts -> {"unborn", "open", "spent"}] /\ AccountsMove
    BY <1>1 DEF BeginSignIn, Logout, Lapse, AccountsMove
<1>5. LinksMove /\ links' \in Seq(LinkRow) /\ Len(links) =< Len(links')
    <2>1. CASE UNCHANGED links
        BY <1>1, <1>2, <1>3, <2>1, LinksUntouched
    <2>2. ASSUME NEW k \in DOMAIN links, links' = [links EXCEPT ![k].live = FALSE]
          PROVE  LinksMove /\ links' \in Seq(LinkRow) /\ Len(links) =< Len(links')
        BY <1>1, <1>3, <2>2, UsingLink
    <2> QED BY <2>1, <2>2 DEF BeginSignIn, Logout, Lapse
<1>6. SessionsMove /\ sessions' \in Seq(SessionRow)
    <2>1. CASE UNCHANGED sessions
        BY <1>1, <1>3, <2>1, SessionsUntouched
    <2>2. ASSUME NEW k \in DOMAIN sessions, Logout(k)
          PROVE  SessionsMove /\ sessions' \in Seq(SessionRow)
        <3> DEFINE P == [s \in DOMAIN sessions |-> s # k]
        <3>1. P \in [DOMAIN sessions -> BOOLEAN]
            OBVIOUS
        <3>2. sessions' = [s \in DOMAIN sessions |-> [sessions[s] EXCEPT !.live = @ /\ P[s]]]
            <4>1. ASSUME NEW s \in DOMAIN sessions
                  PROVE  sessions'[s] = [sessions[s] EXCEPT !.live = sessions[s].live /\ P[s]]
                <5>1. sessions[s] \in SessionRow
                    BY <1>1
                <5>2. sessions' = [sessions EXCEPT ![k].live = FALSE]
                    BY <2>2 DEF Logout
                <5> QED BY <5>1, <5>2 DEF SessionRow
            <4> QED BY <2>2, <4>1 DEF Logout
        <3> HIDE DEF P
        <3>3. FewerSessions(sessions', sessions)
            BY <1>1, <3>1, <3>2, SessionsEnd
        <3> QED BY <1>1, <1>3, <3>3, SessionsStay
    <2> QED BY <2>1, <2>2 DEF BeginSignIn, Lapse
<1> QED BY <1>1, <1>3, <1>4, <1>5, <1>6, Elsewhere

LEMMA NextSound == Sound /\ [Next]_vars => Sound'
<1> SUFFICES ASSUME Sound, [Next]_vars PROVE Sound'
    OBVIOUS
<1>1. CASE UNCHANGED vars
    BY <1>1 DEF Sound, TypeOK, SessionsOK, OneEach, LinksOK, NewestLinkOnly, Ready, vars
<1>2. ASSUME NEW r \in Requests, Handle(r) PROVE Sound'
    <2>1. ASSUME NEW e \in Emails, NEW p \in Cookies, Register(r, e, p) PROVE Sound'
        BY <2>1, RegisterSound
    <2>2. ASSUME NEW e \in Emails, TryLogin(r, e) PROVE Sound'
        BY <2>2, TryLoginSound
    <2>3. ASSUME NEW e \in Emails, RequestReset(r, e) PROVE Sound'
        BY <2>3, RequestLinkSound DEF RequestReset
    <2>4. ASSUME NEW e \in Emails, DevelopmentLogin(r, e) PROVE Sound'
        BY <2>4, CreateUserSound DEF DevelopmentLogin, Subjects
    <2>5. ASSUME NEW s \in DOMAIN sessions, CurrentUser(r, s) PROVE Sound'
        BY <2>5, CurrentUserSound
    <2>6. ASSUME NEW p \in Cookies, Login(r, p) \/ ChangePassword(r, p) \/ ForgetPrevious(r, p)
          PROVE  Sound'
        BY <2>6, LoginSound, ChangePasswordSound, ForgetPreviousSound
    <2>7. ASSUME NEW l \in DOMAIN links, FindLink(r, l) PROVE Sound'
        BY <2>7, FindLinkSound
    <2>8. ASSUME NEW a \in Attempts, Callback(r, a) PROVE Sound'
        BY <2>8, CallbackSound
    <2>9. ASSUME NEW i \in Identities, NEW e \in Emails, Profile(r, i, e) PROVE Sound'
        BY <2>9, CreateUserSound DEF Profile, Subjects
    <2>10. ASSUME RequestVerification(r) PROVE Sound'
        <3>1. req \in [Requests -> Handler] /\ Referring(r)
            BY Types, Zenon DEF Sound
        <3>2. req[r].user \in Emails /\ account[req[r].user].by = Local
            BY <2>10, <3>1 DEF RequestVerification, Referring, Sound, Ready, Handler
        <3> QED BY <2>10, <3>2, RequestLinkSound DEF RequestVerification
    <2>11. CASE VerifyEmail(r) \/ ResetPassword(r) \/ SendLink(r) \/ StartSession(r) \/ Dropped(r)
        BY <2>11, VerifyEmailSound, ResetPasswordSound, SendLinkSound, StartSessionSound, DroppedSound
    <2> QED BY <1>2, <2>1, <2>2, <2>3, <2>4, <2>5, <2>6, <2>7, <2>8, <2>9, <2>10, <2>11 DEF Handle
<1> QED BY <1>1, <1>2, OtherSound DEF Next

THEOREM SoundAlways == Spec => []Sound
BY InitSound, NextSound, PTL DEF Spec

-----------------------------------------------------------------------------
(* The theorems. *)

\* The tables of users, credentials, links, attempts and sessions, and what the
\* handlers of password_auth.py and team_auth.py remember of them, keep their types.
THEOREM AccountTypes == Spec => []TypeOK
<1>1. Sound => TypeOK
    BY DEF Sound
<1> QED BY <1>1, SoundAlways, PTL

\* No session or link works that dates from before a change or reset of the
\* password, however many handlers were in flight when it was changed.
THEOREM ChangeEndsAll == Spec => []NothingOutlivesChange
<1>1. Sound => NothingOutlivesChange
    BY DEF Sound, SessionsOK, LinksOK, NothingOutlivesChange
<1> QED BY <1>1, SoundAlways, PTL

\* Of all links of a kind for an account only the newest ever works (save_token).
THEOREM LinksSuperseded == Spec => []NewestLinkOnly
<1>1. Sound => NewestLinkOnly
    BY DEF Sound
<1> QED BY <1>1, SoundAlways, PTL

\* Every session was obtained the way its account signs in, and one attempt at the
\* provider opens at most one.
THEOREM SessionsEarned == Spec => []SessionsAreEarned
<1>1. Sound => SessionsAreEarned
    BY DEF Sound, SessionsOK, OneEach, SessionsAreEarned
<1> QED BY <1>1, SoundAlways, PTL

\* A password changes only through a request that proved the current one at that
\* moment (change_password), or the newest reset link of the account, still unused.
THEOREM RightfulChanges == Spec => ChangedByRightful
<1> DEFINE Rightful ==
        \A e \in Emails : account'[e].password # account[e].password =>
         \E r \in Requests :
            \/ req[r].pc = "signed" /\ req[r].user = e /\ req[r].password = account[e].password
            \/ /\ req[r].pc = "found"
               /\ LET l == links[req[r].link] IN l.owner = e /\ l.purpose = "reset" /\ l.live
<1>1. ASSUME Sound, [Next]_vars PROVE Rightful
    <2>1. account \in [Emails -> AccountRow]
        BY <1>1, Types, Zenon DEF Sound
    <2>2. CASE SamePasswords
        BY <2>2 DEF SamePasswords
    <2>3. CASE UNCHANGED account
        BY <2>2, <2>3 DEF SamePasswords
    <2>4. ASSUME NEW r \in Requests, NEW f, NewPassword(f),
                 \/ req[r].pc = "signed" /\ req[r].user = f /\ req[r].password = account[f].password
                 \/ /\ req[r].pc = "found" /\ links[req[r].link].owner = f
                    /\ links[req[r].link].purpose = "reset" /\ links[req[r].link].live
          PROVE  Rightful
        <3>1. \A e \in Emails : e # f => account'[e] = account[e]
            BY <2>1, <2>4 DEF NewPassword
        <3> QED BY <2>4, <3>1
    <2>5. ASSUME NEW r \in Requests, Handle(r) PROVE Rightful
        <3>1. ASSUME NEW p, ChangePassword(r, p) PROVE Rightful
            <4>1. /\ NewPassword(req[r].user) /\ req[r].pc = "signed"
                  /\ req[r].password = account[req[r].user].password
                BY <3>1 DEF ChangePassword, Proves
            <4> HIDE DEF Rightful
            <4> QED BY <2>4, <4>1
        <3>2. CASE ResetPassword(r)
            <4>1. /\ NewPassword(links[req[r].link].owner) /\ req[r].pc = "found"
                  /\ links[req[r].link].purpose = "reset" /\ links[req[r].link].live
                BY <3>2 DEF ResetPassword, Consumable
            <4> HIDE DEF Rightful
            <4> QED BY <2>4, <4>1
        <3>3. CASE VerifyEmail(r)
            <4>1. \A e \in Emails : account'[e] = account[e] \/ account'[e] = [account[e] EXCEPT !.verified = TRUE]
                BY <2>1, <3>3 DEF VerifyEmail
            <4>2. SamePasswords
                BY <2>1, <4>1 DEF SamePasswords, AccountRow
            <4> QED BY <2>2, <4>2
        <3>4. ASSUME NEW e \in Emails, NEW p, Register(r, e, p) PROVE Rightful
            BY <1>1, <2>2, <3>4, Vouching DEF Register, Sound
        <3>5. ASSUME NEW i \in Subjects, NEW e \in Emails, CreateUser(r, i, e) PROVE Rightful
            <4>1. SamePasswords
                BY <2>1, <3>5 DEF CreateUser, SamePasswords, AccountRow
            <4> QED BY <2>2, <4>1
        <3>6. ASSUME NEW e \in Emails, DevelopmentLogin(r, e) PROVE Rightful
            BY <3>5, <3>6 DEF DevelopmentLogin, Subjects
        <3>7. ASSUME NEW i \in Identities, NEW e \in Emails, Profile(r, i, e) PROVE Rightful
            BY <3>5, <3>7 DEF Profile, Subjects
        <3>8. CASE \/ \E e \in Emails : TryLogin(r, e) \/ RequestReset(r, e)
                   \/ \E s \in DOMAIN sessions : CurrentUser(r, s)
                   \/ \E p \in Cookies : Login(r, p) \/ ForgetPrevious(r, p)
                   \/ \E l \in DOMAIN links : FindLink(r, l)
                   \/ \E a \in Attempts : Callback(r, a)
                   \/ RequestVerification(r) \/ SendLink(r) \/ StartSession(r) \/ Dropped(r)
            <4>1. UNCHANGED account
                BY <3>8 DEF TryLogin, RequestReset, CurrentUser, Login, ForgetPrevious, FindLink, Callback,
                            RequestVerification, SendLink, StartSession, Dropped
            <4> QED BY <2>3, <4>1
        <3> HIDE DEF Rightful
        <3> QED BY <2>5, <3>1, <3>2, <3>3, <3>4, <3>6, <3>7, <3>8 DEF Handle
    <2>6. UNCHANGED vars => UNCHANGED account
        BY DEF vars
    <2>7. (\E a \in Attempts : BeginSignIn(a)) \/ (\E s \in DOMAIN sessions : Logout(s)) \/ Lapse
            => UNCHANGED account
        BY DEF BeginSignIn, Logout, Lapse
    <2> HIDE DEF Rightful
    <2> QED BY <1>1, <2>3, <2>5, <2>6, <2>7 DEF Next
<1>2. Sound /\ [Next]_vars => [Rightful]_vars
    BY <1>1
<1> QED BY <1>2, SoundAlways, PTL DEF Spec, ChangedByRightful
=============================================================================
