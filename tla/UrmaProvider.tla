---------------------------- MODULE UrmaProvider ----------------------------
(***************************************************************************)
(* What a process acquires from the URMA library, in which order, and what *)
(* it gives back when a part fails and when it ends: the daemon's provider *)
(* (real_init_provider, real_destroy_provider) and the endpoint of the     *)
(* example (create_business_urma, destroy_business_urma).                  *)
(***************************************************************************)
EXTENDS Naturals, Sequences, Functions

\* "device" stands for the lookups, which acquire nothing; the daemon registers
\* the memory of its backend, the example a buffer of its own.
Parts(who) ==
    <<"init", "device", "ctx", "jfce", "jfc", "jfr", "jetty">>
      \o IF who = "daemon" THEN <<"seg">> ELSE <<"buf", "seg">>

\* What the labels at the end of the two functions release, in order.
FailLabels(who) ==
    (IF who = "daemon" THEN <<>> ELSE <<"buf">>)
      \o <<"jetty", "jfr", "jfc", "jfce", "ctx", "init">>

LabelsRunFromNext(who, part) ==
    CASE part = "init" -> 0
      [] part \in {"device", "ctx"} -> 1
      [] part = "jfce" -> 1
      [] part = "jfc" -> 2
      [] part = "jfr" -> 3
      [] part = "jetty" -> 4
      [] part = "buf" -> 5
      [] part = "seg" -> IF who = "daemon" THEN 5 ELSE 6

\* How many of these are released, the last ones, when a part fails: where its
\* goto leads, or what it does before it returns.
LabelsRun(who, part) ==
    CASE part = "init" -> 0
      [] part \in {"device", "ctx"} -> 1
      [] part = "jfce" -> 2
      [] part = "jfc" -> 3
      [] part = "jfr" -> 4
      [] part = "jetty" -> 5
      [] part = "buf" -> 6
      [] part = "seg" -> IF who = "daemon" THEN 6 ELSE 7

\* What the process holds when all has been acquired, and what the failure of the
\* i-th part leaves it with.
Provided(who) == Range(Parts(who)) \ {"device"}

LeftAfter(who, i) ==
    LET labels == FailLabels(who)
        run == LabelsRun(who, Parts(who)[i])
    IN  {Parts(who)[j] : j \in 1 .. i - 1}
          \ ({"device"} \cup {labels[j] : j \in Len(labels) - run + 1 .. Len(labels)})

\* The order of the two destroy functions.
DestroyOrder(who) ==
    <<"seg", "jetty", "jfr", "jfc", "jfce">>
      \o (IF who = "daemon" THEN <<>> ELSE <<"buf">>) \o <<"ctx", "init">>
=============================================================================
