----------------------------- MODULE ActionWire -----------------------------
(***************************************************************************)
(* What an action client and an action server share: rclcpp_action's goals *)
(* and the three services and the feedback topic between the processes.    *)
(* None of this is in the repository; it is modelled from how              *)
(* resource/action__client.cpp.em and action__server.cpp.em use it.        *)
(***************************************************************************)
EXTENDS Naturals, Sequences, FiniteSets

CONSTANTS
  MaxGoals,      \* bound: sendGoal() calls that reach the wire
  MaxCancels,    \* bound: cancelGoal() calls that reach the wire
  MaxFeedbacks,  \* bound: publishFeedback() calls
  MaxResets,     \* bound: reconnections and shutdowns of either node
  MaxDeclines    \* bound: goals a server that is not one of QtROS declines

ASSUME ActionBoundsAssumption ==
  /\ MaxGoals \in Nat /\ MaxCancels \in Nat /\ MaxFeedbacks \in Nat
  /\ MaxResets \in Nat /\ MaxDeclines \in Nat

Goals == 1..MaxGoals
Ends == {"Succeeded", "Canceled", "Aborted"}
Statuses == {"none", "declined", "executing", "canceling"} \union Ends

VARIABLES
  server,     \* the server process has an rclcpp server
  known,      \* the goals that server knows
  status,     \* the state of each goal's server-side handle
  mine,       \* the goals sent through the present rclcpp client
  tracked,    \* the goals that client has a handle for and no result
  due,        \* the goals whose result it has asked a living server for
  requests,   \* goal requests on their way, oldest first
  answers,    \* goal responses on their way, oldest first
  cancels,    \* goals with a cancel request on its way
  feedbacks,  \* goals with a feedback message on its way
  cut,        \* goals sent before a connection was replaced or lost
  failed,     \* an exception that nothing catches has ended a process
  cancelCalls, feedbackCalls, resets, declines   \* counters behind the bounds

goalVars == <<server, known, status>>
trackVars == <<mine, tracked, due>>
wireVars == <<requests, answers, cancels, feedbacks>>
actionBoundVars == <<cancelCalls, feedbackCalls, resets, declines>>

WireInit ==
  /\ server = FALSE /\ known = {} /\ status = [g \in Goals |-> "none"]
  /\ mine = {} /\ tracked = {} /\ due = {}
  /\ requests = <<>> /\ answers = <<>> /\ cancels = {} /\ feedbacks = {}
  /\ cut = {} /\ failed = FALSE
  /\ cancelCalls = 0 /\ feedbackCalls = 0 /\ resets = 0 /\ declines = 0

\* A goal response; nobody hears it if the asking client is gone.
Answered(g, accepted) ==
  IF g \in mine THEN Append(answers, [goal |-> g, accepted |-> accepted]) ELSE answers

WireTypeOK ==
  /\ server \in BOOLEAN /\ known \subseteq Goals /\ status \in [Goals -> Statuses]
  /\ mine \subseteq Goals /\ tracked \subseteq Goals /\ due \subseteq Goals
  /\ requests \in Seq(Goals) /\ answers \in Seq([goal : Goals, accepted : BOOLEAN])
  /\ cancels \subseteq Goals /\ feedbacks \subseteq Goals
  /\ cut \subseteq Goals /\ failed \in BOOLEAN
  /\ cancelCalls \in Nat /\ feedbackCalls \in Nat /\ resets \in Nat /\ declines \in Nat
=============================================================================
