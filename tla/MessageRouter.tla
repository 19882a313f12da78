----------------------------- MODULE MessageRouter -----------------------------
(***************************************************************************)
(* Messages between sessions and sessions made for sessions: /msg/send,    *)
(* /msg/create and /msg/resume of the hook server (server/handler_msg.go,  *)
(* root.go) and of the daemon (daemon/server.go).  A handler works on a    *)
(* copy of the sessions while the TUI, the collector and other handlers    *)
(* change them.  A message is known by its request.                        *)
(***************************************************************************)
EXTENDS Projects

CONSTANTS
  Requests,   (* requests to the server                                    *)
  Visits,     (* bound: the kinds of requests that run beside each other   *)
  Ops,        (* what the user and the collector do beside each kind       *)
  SendFails   (* TRUE: send-keys can fail though the window is there       *)

\* What a request asks for: to send, to create one of three, to resume.
Kinds == {"send", "worker", "pm", "local", "resume"}

ASSUME RequestsAssumption ==
  /\ Visits \subseteq SUBSET Kinds
  /\ Ops \in [Kinds -> SUBSET {"create", "worktree", "reuse", "pm", "resume", "rename", "delete", "exit", "close", "mirror", "sync"}]
  /\ SendFails \in BOOLEAN

VARIABLES
  asked,   (* the kinds of the requests of this execution                  *)
  req,     (* the handler of each request                                  *)
  input,   (* the messages typed into a window's prompt and not submitted  *)
  inbox    (* the messages submitted in each window                        *)

vars == <<treeVars, asked, req, input, inbox>>

\* win: the window of the recipient; dir: the project of the caller; the text
\* is unheard if Claude had exited when it was sent, unentered if Enter failed
\* or Claude had exited by then.
Request ==
  [kind : Kinds, from : Ids, to : Ids, name : Trees,
   at : {"send", "type", "enter", "find", "create", "rename", "prompt", "delivered", "answered", "failed"},
   win : Windows \cup {0}, dir : Paths, unheard : BOOLEAN, unentered : BOOLEAN]
NoRequest == [kind |-> "none"]

TypeOK ==
  /\ TreeTypeOK /\ asked \subseteq Kinds
  /\ req \in [Requests -> Request \cup {NoRequest}]
  /\ input \in [Windows -> SUBSET Requests] /\ inbox \in [Windows -> SUBSET Requests]

Init ==
  /\ TreeInit /\ asked \in Visits /\ req = [r \in Requests |-> NoRequest]
  /\ input = [w \in Windows |-> {}] /\ inbox = [w \in Windows |-> {}]

AnyDir == <<CHOOSE d \in Dirs : TRUE, NoTree>>
At(r, l) == req[r] # NoRequest /\ req[r].at = l
Goto(r, l) == req' = [req EXCEPT ![r].at = l]
Heard(w) == windows[w].pane = "alive"

\* The request as the handler decodes it, at the first step of its kind.
Accepted(k, from, to, name) ==
  [kind |-> k, from |-> from, to |-> to, name |-> name, win |-> 0, dir |-> AnyDir, unheard |-> FALSE, unentered |-> FALSE,
   at |-> CASE k = "send" -> "send" [] k = "resume" -> "create" [] OTHER -> "find"]

\* The caller runs on this machine and knows the recipient by the id that `sessions` once listed.
Start(r) ==
  /\ req[r] = NoRequest
  /\ \E k \in asked, from, to \in used, name \in Trees :
       /\ k # "resume" /\ FindByID(from) # NoSession => FindByID(from).host = Local
       /\ (from = to) = (k # "send") \* a resume has no sender
       /\ k \in {"send", "pm"} => name = CHOOSE n \in Trees : TRUE
       /\ req' = [req EXCEPT ![r] = Accepted(k, from, to, name)]
  /\ UNCHANGED <<treeVars, asked, input, inbox>>

-----------------------------------------------------------------------------
(* /msg/send.                                                              *)

\* The handler takes the last session with the id.
Recipient(id) ==
  LET i == LastOf({j \in DOMAIN projects : Has(projects[j], id)})
  IN IF i = 0 THEN NoSession ELSE InSlot(projects[i], Max({k \in Slots(projects[i]) : InSlot(projects[i], k).id = id}))

\* Its stored window, else one with its name in tmux.
WindowsOf(s) ==
  IF s = NoSession THEN {} ELSE IF s.window # 0 THEN {s.window} ELSE IF s.host = Local THEN Named(s.id) ELSE {}

\* Mutant of Resolve: the window of the sender.
ResolveSender(r) ==
  /\ At(r, "send")
  /\ \E w \in WindowsOf(Recipient(req[r].from)) : req' = [req EXCEPT ![r].win = w, ![r].at = "type"]
  /\ UNCHANGED <<treeVars, asked, input, inbox>>

Resolve(r) ==
  /\ At(r, "send")
  /\ LET found == WindowsOf(Recipient(req[r].to))
     IN \/ found = {} /\ Goto(r, "failed")
        \/ \E w \in found : req' = [req EXCEPT ![r].win = w, ![r].at = "type"]
  /\ UNCHANGED <<treeVars, asked, input, inbox>>

\* SendKeysLiteral: tmux refuses a window that is gone, and takes what is
\* sent to a dead pane without an error.
TypeText(r) ==
  LET w == req[r].win IN
  /\ At(r, "type")
  /\ \/ /\ Open(w) /\ req' = [req EXCEPT ![r].at = "enter", ![r].unheard = ~Heard(w)]
        /\ input' = IF Heard(w) THEN [input EXCEPT ![w] = @ \cup {r}] ELSE input
     \/ /\ SendFails \/ ~Open(w)
        /\ Goto(r, IF req[r].kind = "send" THEN "failed" ELSE "answered") /\ UNCHANGED input
  /\ UNCHANGED <<treeVars, asked, inbox>>

\* SendKeys "Enter" submits all that is in the prompt; its error is logged.
PressEnter(r) ==
  LET w == req[r].win IN
  /\ At(r, "enter")
  /\ \/ /\ Open(w) /\ Heard(w) /\ Goto(r, "delivered")
        /\ inbox' = [inbox EXCEPT ![w] = @ \cup input[w]] /\ input' = [input EXCEPT ![w] = {}]
     \/ /\ SendFails \/ ~Open(w) \/ ~Heard(w)
        /\ req' = [req EXCEPT ![r].at = "delivered", ![r].unentered = TRUE] /\ UNCHANGED <<input, inbox>>
  /\ UNCHANGED <<treeVars, asked>>

-----------------------------------------------------------------------------
(* /msg/create and /msg/resume.                                            *)

\* Mutant of FindProject: the caller's own directory, a worktree's too.
CallersDirectory(r) ==
  /\ At(r, "find")
  /\ LET s == FindByID(req[r].from)
     IN req' = IF s = NoSession THEN [req EXCEPT ![r].at = "failed"]
               ELSE [req EXCEPT ![r].at = "create", ![r].dir = s.path]
  /\ UNCHANGED <<treeVars, asked, input, inbox>>

\* FindProjectForSession of the caller: only its path is kept.
FindProject(r) ==
  /\ At(r, "find")
  /\ LET i == FindProjectForSession(req[r].from)
     IN req' = IF i = 0 THEN [req EXCEPT ![r].at = "failed"]
               ELSE [req EXCEPT ![r].at = "create", ![r].dir = projects[i].path]
  /\ UNCHANGED <<treeVars, asked, input, inbox>>

\* An error may also be that of a Save after the launch.
CreateSession(r) ==
  /\ At(r, "create") /\ req[r].kind # "resume"
  /\ LET root == req[r].dir
     IN \/ \E new \in Ids \ used :
           /\ \/ req[r].kind = "worker" /\ CreateWorktree(new, req[r].name, root)
              \/ req[r].kind = "pm" /\ CreatePM(new, root)
              \/ req[r].kind = "local" /\ Create(new, root)
           /\ \E l \in {IF req[r].kind = "local" THEN "rename" ELSE "answered", "failed"} :
                req' = [req EXCEPT ![r].to = new, ![r].at = IF new \notin used' THEN "failed" ELSE l]
        \/ Goto(r, "failed") /\ UNCHANGED treeVars
  /\ UNCHANGED <<asked, input, inbox>>

\* CreateLocalSession gives the session the name asked for, without the
\* manager's lock; then the prompt is typed if the answer has a window: the
\* record as launchSession returns it, before any Sync.
RenameLocal(r) ==
  /\ At(r, "rename")
  /\ \/ Rename(req[r].to, req[r].name) /\ Goto(r, "prompt")
     \/ FindByID(req[r].to) = NoSession /\ Goto(r, "failed") /\ UNCHANGED treeVars
  /\ UNCHANGED <<asked, input, inbox>>

SendPrompt(r) ==
  /\ At(r, "prompt") /\ Goto(r, IF req[r].win = 0 THEN "answered" ELSE "type")
  /\ UNCHANGED <<treeVars, asked, input, inbox>>

ResumeSession(r) ==
  /\ At(r, "create") /\ req[r].kind = "resume"
  /\ \/ /\ ResumeKnown(req[r].to) \/ ResumeCollected(req[r].to, req[r].name)
        /\ \E l \in {"answered", "failed"} : Goto(r, l)
     \/ Goto(r, "failed") /\ UNCHANGED treeVars
  /\ UNCHANGED <<asked, input, inbox>>

-----------------------------------------------------------------------------
(* The user, the collector and remote connections meanwhile.               *)

May(op) == \E k \in asked : op \in Ops[k]

UserStep(id) ==
  \/ May("delete") /\ Delete(id)
  \/ May("exit") /\ Exit(id)
  \/ May("close") /\ Close(id)
  \/ May("resume") /\ ResumeKnown(id)
  \/ \E name \in Trees : (May("resume") /\ ResumeCollected(id, name)) \/ (May("rename") /\ Rename(id, name))
  \/ \E d \in Dirs : LET root == <<d, NoTree>> IN
       \/ May("create") /\ Create(id, root)
       \/ May("pm") /\ CreatePM(id, root)
       \/ \E name \in Trees :
            \/ May("worktree") /\ CreateWorktree(id, name, root)
            \/ May("reuse") /\ ResumeWorktree(id, name, root)
            \/ /\ May("mirror")
               /\ \E h \in Remotes, path, at \in {root, <<d, name>>} : AddMirror(id, path, h, at)

User ==
  /\ (\E id \in Ids : UserStep(id)) \/ (May("sync") /\ Sync)
  /\ UNCHANGED <<asked, req, input, inbox>>

Handle(r) ==
  \/ Resolve(r) \/ TypeText(r) \/ PressEnter(r)
  \/ FindProject(r) \/ CreateSession(r) \/ RenameLocal(r) \/ SendPrompt(r) \/ ResumeSession(r)

Next == User \/ \E r \in Requests : Start(r) \/ Handle(r)

Spec == Init /\ [][Next]_vars

-----------------------------------------------------------------------------
(* Properties                                                              *)

\* A message is typed into a window of its recipient or nowhere, however the
\* recipient was resumed, renamed or deleted in between, and the answer tells
\* which: "delivered" is a message typed into the window that was found,
\* unless Claude had exited there, and submitted, unless Enter failed or
\* Claude exited before it; an error is a message typed nowhere.
MessageReachesRecipient ==
  \A r \in Requests : req[r].kind = "send" =>
    LET at == {w \in Windows : r \in input[w] \cup inbox[w]}
    IN /\ \A w \in at : windows[w].id = req[r].to
       /\ req[r].at = "delivered" =>
            /\ at = IF req[r].unheard THEN {} ELSE {req[r].win}
            /\ req[r].unheard \/ req[r].unentered \/ r \in inbox[req[r].win]
       /\ req[r].at = "failed" => at = {}

\* handler_msg.go:85 "scoped to the caller's project": a worker, a PM or a
\* plain session made for a session is in the project of that session for
\* as long as both are in the store, unless a collected session was resumed
\* by the name of its worktree, which may put it into another project.
WorkerJoinsCaller ==
  byName \/ \A r \in Requests :
    req[r].kind \in {"worker", "pm", "local"} /\ req[r].at \in {"rename", "prompt", "answered"} =>
      LET i == FindProjectForSession(req[r].from) j == FindProjectForSession(req[r].to)
      IN i # 0 /\ j # 0 => i = j

\* The store of the sessions that messages are routed by is well formed.
StoreIsSound == TypeOK /\ ProjectsAreSound /\ WorktreeHasOneSession
=============================================================================
