------------------------------ MODULE MCCapture ------------------------------
EXTENDS Capture

MCCompiled == [p \in Params |-> 0]
Value(p, v) == [param |-> p, value |-> v]
Set(p, values) == [kind |-> "set", target |-> p, values |-> values]
Reset(p) == [kind |-> "reset", target |-> p]
Both == <<Value("low", 1), Value("high", 1)>>
Recorded == {Set(1, Both)}
MCChanges == Recorded \cup {Set(2, Both), Set(1, <<Value("low", 1)>>), Reset(2)}

\* Steps that only differ from others in when they are taken are left out: a key
\* press is one that comes just before a recorded frame or flush is done (the
\* next one sees it just the same), and a frame of another router is one that
\* meets a change of settings.  And the host timeout passes for a host that is
\* gone or never learnt that it records, a trace begins with the ball (the sources
\* are symmetric), and while the host records it only changes the settings of
\* what it records.
Telling ==
  /\ press' # press => \E p \in Recordable : lock[p] = "frame" /\ todo[p] = <<>>
  /\ \A p \in Pipelines \ Recordable :
       lock[p] = "free" /\ lock'[p] = "frame" => w.pc \in {"lock", "copy"} /\ w.goal.kind # "control"
  /\ recording # None /\ recording' = None /\ asked' = asked => conn = 0 \/ ~host.own
  /\ \A p \in Recordable : tap[p].source = NoSource => tap'[p].source # "pad"
  /\ asked' # asked /\ asked' # <<>> /\ asked'[1] \in MCChanges \ Recorded =>
       recording = None /\ ~host.active
==============================================================================
