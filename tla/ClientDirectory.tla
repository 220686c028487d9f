--------------------------- MODULE ClientDirectory ---------------------------
(****************************************************************************)
(* What the server's session list promises to the rest of the system: at    *)
(* any time a client ID belongs to at most one session, a session takes an  *)
(* ID only when it is free and at most once in its life, and an ID becomes  *)
(* free only when the very session that held it leaves.  SessionServer      *)
(* implements this specification with Manager::session_list_.               *)
(****************************************************************************)
CONSTANTS ClientId,   \* the IDs clients register with
          Session,    \* the sessions
          NoSession   \* the holder of a free ID

VARIABLES holder,     \* the session each ID belongs to
          standing    \* "new", "member" of the directory, or "past" member

dirVars == <<holder, standing>>

DirInit == /\ holder = [i \in ClientId |-> NoSession]
           /\ standing = [s \in Session |-> "new"]

Claim(i, s) == /\ holder[i] = NoSession
               /\ standing[s] = "new"
               /\ holder' = [holder EXCEPT ![i] = s]
               /\ standing' = [standing EXCEPT ![s] = "member"]

Release(i, s) == /\ holder[i] = s
                 /\ standing[s] = "member"
                 /\ holder' = [holder EXCEPT ![i] = NoSession]
                 /\ standing' = [standing EXCEPT ![s] = "past"]

DirNext == \E i \in ClientId, s \in Session : Claim(i, s) \/ Release(i, s)

DirSpec == DirInit /\ [][DirNext]_dirVars
=============================================================================
