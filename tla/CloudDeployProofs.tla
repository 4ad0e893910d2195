-------------------------- MODULE CloudDeployProofs --------------------------
(***************************************************************************)
(* Theorems about CloudDeploy, for every number of stops, other commands   *)
(* and teardowns.                                                          *)
(***************************************************************************)
EXTENDS CloudDeploy, SequenceTheorems, TLAPS

-----------------------------------------------------------------------------
(* Lemmas about the lists of calls.                                        *)

\* What is left of a list from position k on.
LEMMA HeadOfRest ==
    ASSUME NEW list \in Seq(Step), NEW k \in 1..Len(list)
    PROVE  LET rest == SubSeq(list, k, Len(list)) IN
           /\ rest # <<>> /\ Head(rest) = list[k]
           /\ Tail(rest) = SubSeq(list, k + 1, Len(list))
           /\ k = Len(list) => Tail(rest) = <<>>
<1> DEFINE rest == SubSeq(list, k, Len(list))
<1>1. /\ Len(list) \in Nat /\ rest \in Seq(Step)
      /\ Len(rest) = Len(list) - k + 1
      /\ \A i \in 1..Len(list) - k + 1 : rest[i] = list[k + i - 1]
    BY LenProperties, SubSeqProperties
<1>2. rest # <<>> /\ Head(rest) = list[k]
    <2>1. Len(rest) > 0 /\ rest[1] = list[k]
        BY <1>1
    <2> HIDE DEF rest
    <2> QED  BY <1>1, <2>1
<1>3. /\ Tail(rest) \in Seq(Step) /\ Len(Tail(rest)) = Len(rest) - 1
      /\ \A i \in 1..Len(Tail(rest)) : Tail(rest)[i] = rest[i + 1]
    BY <1>1, <1>2, HeadTailProperties
<1>4. Tail(rest) = SubSeq(list, k + 1, Len(list))
    <2> DEFINE next == SubSeq(list, k + 1, Len(list))
    <2>1. /\ next \in Seq(Step) /\ Len(next) = Len(list) - k
          /\ \A i \in 1..Len(list) - k : next[i] = list[k + i]
        BY <1>1, SubSeqProperties
    <2>2. Len(next) = Len(Tail(rest))
        BY <1>1, <1>3, <2>1
    <2>3. \A i \in 1..Len(next) : next[i] = Tail(rest)[i]
        BY <1>1, <1>3, <2>1
    <2> HIDE DEF next, rest
    <2>4. next = Tail(rest)
        BY <1>3, <2>1, <2>2, <2>3, SeqEqual
    <2> QED  BY <2>4 DEF next
<1>5. k = Len(list) => Tail(rest) = <<>>
    BY <1>1, <1>3, EmptySeq
<1> QED  BY <1>2, <1>4, <1>5

\* One list after another.
LEMMA Joined ==
    ASSUME NEW s \in Seq(Step), NEW u \in Seq(Step), NEW w, w = s \o u
    PROVE  /\ w \in Seq(Step) /\ Len(w) = Len(s) + Len(u)
           /\ \A i \in 1..Len(s) : w[i] = s[i]
           /\ \A i \in 1..Len(u) : w[Len(s) + i] = u[i]
<1>1. /\ w \in Seq(Step) /\ Len(w) = Len(s) + Len(u)
      /\ \A i \in 1..Len(s) + Len(u) :
             w[i] = IF i <= Len(s) THEN s[i] ELSE u[i - Len(s)]
    BY ConcatProperties
<1>2. Len(s) \in Nat /\ Len(u) \in Nat
    BY LenProperties
<1>3. \A i \in 1..Len(s) : i \in 1..Len(s) + Len(u) /\ i <= Len(s)
    BY <1>2
<1>4. \A i \in 1..Len(u) : /\ Len(s) + i \in 1..Len(s) + Len(u)
                             /\ ~(Len(s) + i <= Len(s)) /\ (Len(s) + i) - Len(s) = i
    BY <1>2
<1> QED  BY <1>1, <1>3, <1>4

\* The three calls that deploy a service.
LEMMA DeployCalls ==
    ASSUME NEW s \in Service
    PROVE  /\ Deploy(s) \in Seq(Step) /\ Len(Deploy(s)) = 3
           /\ Deploy(s)[1] = <<"apply", s>>
           /\ Deploy(s)[2] = <<"rebase", s>>
           /\ Deploy(s)[3] = <<"save", s>>
<1>1. {<<"apply", s>>, <<"rebase", s>>, <<"save", s>>} \subseteq Step
    <2>1. {"apply", "rebase", "save"} \subseteq Verb
        BY DEF Verb
    <2> QED  BY <2>1 DEF Step
<1>2. Deploy(s) = << <<"apply", s>>, <<"rebase", s>>, <<"save", s>> >>
    BY DEF Deploy
<1> QED  BY <1>1, <1>2

\* The calls that deploy all of them.
LEMMA BootstrapCalls ==
    LET b == BootstrapHosts IN
    /\ b \in Seq(Step) /\ Len(b) = 17
    /\ b[1]  = <<"apply", "registry">>   /\ b[2]  = <<"rebase", "registry">>
    /\ b[3]  = <<"save", "registry">>
    /\ b[4]  = <<"apply", "ingestion">>  /\ b[5]  = <<"rebase", "ingestion">>
    /\ b[6]  = <<"save", "ingestion">>
    /\ b[7]  = <<"apply", "risk">>       /\ b[8]  = <<"rebase", "risk">>
    /\ b[9]  = <<"save", "risk">>
    /\ b[10] = <<"apply", "anomaly">>    /\ b[11] = <<"rebase", "anomaly">>
    /\ b[12] = <<"save", "anomaly">>
    /\ b[13] = <<"link", "risk">>
    /\ b[14] = <<"apply", "ingestion">>  /\ b[15] = <<"rebase", "ingestion">>
    /\ b[16] = <<"save", "ingestion">>
    /\ b[17] = <<"finish", "risk">>
<1> DEFINE b1 == Deploy("registry") \o Deploy("ingestion")
           b2 == b1 \o Deploy("risk")
           b3 == b2 \o Deploy("anomaly")
           l  == << <<"link", "risk">> >>
           b4 == b3 \o l
           b5 == b4 \o Deploy("ingestion")
           f  == << <<"finish", "risk">> >>
           b6 == b5 \o f
<1>services. \A s \in {"registry", "ingestion", "risk", "anomaly"} :
             Deploy(s) \in Seq(Step) /\ Len(Deploy(s)) = 3
    BY DeployCalls DEF Service, AwsService
<1>calls. \A s \in {"registry", "ingestion", "risk", "anomaly"} :
              /\ Deploy(s)[1] = <<"apply", s>>
              /\ Deploy(s)[2] = <<"rebase", s>>
              /\ Deploy(s)[3] = <<"save", s>>
    BY DeployCalls DEF Service, AwsService
<1>l. /\ l \in Seq(Step) /\ Len(l) = 1 /\ l[1] = <<"link", "risk">>
      /\ f \in Seq(Step) /\ Len(f) = 1 /\ f[1] = <<"finish", "risk">>
    <2>1. <<"link", "risk">> \in Step /\ <<"finish", "risk">> \in Step
        <3>1. {"link", "finish"} \subseteq Verb /\ "risk" \in Service
            BY DEF Verb, Service
        <3> QED  BY <3>1 DEF Step
    <2> QED  BY <2>1
<1>1. /\ b1 \in Seq(Step) /\ Len(b1) = 3 + 3
      /\ \A i \in 1..3 : b1[i] = Deploy("registry")[i]
      /\ \A i \in 1..3 : b1[3 + i] = Deploy("ingestion")[i]
    <2>1. Deploy("registry") \in Seq(Step) /\ Deploy("ingestion") \in Seq(Step)
        BY <1>services
    <2>2. Len(Deploy("registry")) = 3 /\ Len(Deploy("ingestion")) = 3
        BY <1>services
    <2>3. b1 = Deploy("registry") \o Deploy("ingestion")
        OBVIOUS
    <2> HIDE DEF b1
    <2>4. /\ b1 \in Seq(Step) /\ Len(b1) = Len(Deploy("registry")) + Len(Deploy("ingestion"))
          /\ \A i \in 1..Len(Deploy("registry")) : b1[i] = Deploy("registry")[i]
          /\ \A i \in 1..Len(Deploy("ingestion")) :
                 b1[Len(Deploy("registry")) + i] = Deploy("ingestion")[i]
        BY <2>1, <2>3, Joined
    <2> QED  BY <2>2, <2>4
<1> HIDE DEF b1
<1>2. /\ b2 \in Seq(Step) /\ Len(b2) = 6 + 3
      /\ \A i \in 1..6 : b2[i] = b1[i]
      /\ \A i \in 1..3 : b2[6 + i] = Deploy("risk")[i]
    <2>1. b1 \in Seq(Step) /\ Deploy("risk") \in Seq(Step)
        BY <1>1, <1>services
    <2>2. Len(b1) = 6 /\ Len(Deploy("risk")) = 3
        BY <1>1, <1>services
    <2>3. b2 = b1 \o Deploy("risk")
        OBVIOUS
    <2> HIDE DEF b2
    <2>4. /\ b2 \in Seq(Step) /\ Len(b2) = Len(b1) + Len(Deploy("risk"))
          /\ \A i \in 1..Len(b1) : b2[i] = b1[i]
          /\ \A i \in 1..Len(Deploy("risk")) : b2[Len(b1) + i] = Deploy("risk")[i]
        BY <2>1, <2>3, Joined
    <2> QED  BY <2>2, <2>4
<1> HIDE DEF b2
<1>3. /\ b3 \in Seq(Step) /\ Len(b3) = 9 + 3
      /\ \A i \in 1..9 : b3[i] = b2[i]
      /\ \A i \in 1..3 : b3[9 + i] = Deploy("anomaly")[i]
    <2>1. b2 \in Seq(Step) /\ Deploy("anomaly") \in Seq(Step)
        BY <1>2, <1>services
    <2>2. Len(b2) = 9 /\ Len(Deploy("anomaly")) = 3
        BY <1>2, <1>services
    <2>3. b3 = b2 \o Deploy("anomaly")
        OBVIOUS
    <2> HIDE DEF b3
    <2>4. /\ b3 \in Seq(Step) /\ Len(b3) = Len(b2) + Len(Deploy("anomaly"))
          /\ \A i \in 1..Len(b2) : b3[i] = b2[i]
          /\ \A i \in 1..Len(Deploy("anomaly")) : b3[Len(b2) + i] = Deploy("anomaly")[i]
        BY <2>1, <2>3, Joined
    <2> QED  BY <2>2, <2>4
<1> HIDE DEF b3, l, f
<1>4. /\ b4 \in Seq(Step) /\ Len(b4) = 12 + 1
      /\ \A i \in 1..12 : b4[i] = b3[i]
      /\ \A i \in 1..1 : b4[12 + i] = l[i]
    <2>1. b3 \in Seq(Step) /\ l \in Seq(Step)
        BY <1>3, <1>l
    <2>2. Len(b3) = 12 /\ Len(l) = 1
        BY <1>3, <1>l
    <2>3. b4 = b3 \o l
        OBVIOUS
    <2> HIDE DEF b4
    <2>4. /\ b4 \in Seq(Step) /\ Len(b4) = Len(b3) + Len(l)
          /\ \A i \in 1..Len(b3) : b4[i] = b3[i]
          /\ \A i \in 1..Len(l) : b4[Len(b3) + i] = l[i]
        BY <2>1, <2>3, Joined
    <2> QED  BY <2>2, <2>4
<1> HIDE DEF b4
<1>5. /\ b5 \in Seq(Step) /\ Len(b5) = 13 + 3
      /\ \A i \in 1..13 : b5[i] = b4[i]
      /\ \A i \in 1..3 : b5[13 + i] = Deploy("ingestion")[i]
    <2>1. b4 \in Seq(Step) /\ Deploy("ingestion") \in Seq(Step)
        BY <1>4, <1>services
    <2>2. Len(b4) = 13 /\ Len(Deploy("ingestion")) = 3
        BY <1>4, <1>services
    <2>3. b5 = b4 \o Deploy("ingestion")
        OBVIOUS
    <2> HIDE DEF b5
    <2>4. /\ b5 \in Seq(Step) /\ Len(b5) = Len(b4) + Len(Deploy("ingestion"))
          /\ \A i \in 1..Len(b4) : b5[i] = b4[i]
          /\ \A i \in 1..Len(Deploy("ingestion")) : b5[Len(b4) + i] = Deploy("ingestion")[i]
        BY <2>1, <2>3, Joined
    <2> QED  BY <2>2, <2>4
<1> HIDE DEF b5
<1>6. /\ b6 \in Seq(Step) /\ Len(b6) = 16 + 1
      /\ \A i \in 1..16 : b6[i] = b5[i]
      /\ \A i \in 1..1 : b6[16 + i] = f[i]
    <2>1. b5 \in Seq(Step) /\ f \in Seq(Step)
        BY <1>5, <1>l
    <2>2. Len(b5) = 16 /\ Len(f) = 1
        BY <1>5, <1>l
    <2>3. b6 = b5 \o f
        OBVIOUS
    <2> HIDE DEF b6
    <2>4. /\ b6 \in Seq(Step) /\ Len(b6) = Len(b5) + Len(f)
          /\ \A i \in 1..Len(b5) : b6[i] = b5[i]
          /\ \A i \in 1..Len(f) : b6[Len(b5) + i] = f[i]
        BY <2>1, <2>3, Joined
    <2> QED  BY <2>2, <2>4
<1>7. b6 = BootstrapHosts
    BY DEF b1, b2, b3, b4, b5, l, f, BootstrapHosts
<1> HIDE DEF b6
<1>8. /\ b6[1] = <<"apply", "registry">> /\ b6[2] = <<"rebase", "registry">>
      /\ b6[3] = <<"save", "registry">>
    <2>1. b6[1] = b1[1] /\ b6[2] = b1[2] /\ b6[3] = b1[3]
        BY <1>2, <1>3, <1>4, <1>5, <1>6
    <2> QED  BY <1>1, <2>1, <1>calls
<1>9. /\ b6[4] = <<"apply", "ingestion">> /\ b6[5] = <<"rebase", "ingestion">>
      /\ b6[6] = <<"save", "ingestion">>
    <2>1. b6[4] = b1[3 + 1] /\ b6[5] = b1[3 + 2] /\ b6[6] = b1[3 + 3]
        BY <1>2, <1>3, <1>4, <1>5, <1>6
    <2> QED  BY <1>1, <2>1, <1>calls
<1>10. /\ b6[7] = <<"apply", "risk">> /\ b6[8] = <<"rebase", "risk">>
       /\ b6[9] = <<"save", "risk">>
    <2>1. b6[7] = b2[6 + 1] /\ b6[8] = b2[6 + 2] /\ b6[9] = b2[6 + 3]
        BY <1>3, <1>4, <1>5, <1>6
    <2> QED  BY <1>2, <2>1, <1>calls
<1>11. /\ b6[10] = <<"apply", "anomaly">> /\ b6[11] = <<"rebase", "anomaly">>
       /\ b6[12] = <<"save", "anomaly">>
    <2>1. b6[10] = b3[9 + 1] /\ b6[11] = b3[9 + 2] /\ b6[12] = b3[9 + 3]
        BY <1>4, <1>5, <1>6
    <2> QED  BY <1>3, <2>1, <1>calls
<1>12. b6[13] = <<"link", "risk">> /\ b6[17] = <<"finish", "risk">>
    <2>1. b6[13] = b4[12 + 1] /\ b6[17] = b6[16 + 1]
        BY <1>5, <1>6
    <2>2. b4[12 + 1] = l[1] /\ b6[16 + 1] = f[1]
        BY <1>4, <1>6
    <2> QED  BY <2>1, <2>2, <1>l
<1>13. /\ b6[14] = <<"apply", "ingestion">> /\ b6[15] = <<"rebase", "ingestion">>
       /\ b6[16] = <<"save", "ingestion">>
    <2>1. b6[14] = b5[13 + 1] /\ b6[15] = b5[13 + 2] /\ b6[16] = b5[13 + 3]
        BY <1>6
    <2> QED  BY <1>5, <2>1, <1>calls
<1> QED  BY <1>6, <1>7, <1>8, <1>9, <1>10, <1>11, <1>12, <1>13

\* What provisioning consists of, beside the role and its policy.
Setup == {"images", "keep", "replace", "group", "resources"}

\* The calls that provision one cloud.
LEMMA ProvisionCalls ==
    ASSUME NEW replace \in BOOLEAN
    PROVE  /\ Provision("aws", replace) \in Seq(Step) /\ Len(Provision("aws", replace)) = 4
           /\ Provision("aws", replace)[1] = <<"role", "aws">>
           /\ Provision("aws", replace)[2] = <<"policy", "aws">>
           /\ \A i \in 3..4 : Provision("aws", replace)[i][1] \in Setup
           /\ Provision("azure", replace) \in Seq(Step) /\ Len(Provision("azure", replace)) = 3
           /\ \A i \in 1..3 : Provision("azure", replace)[i][1] \in Setup
           /\ Provision("gcp", replace) \in Seq(Step) /\ Len(Provision("gcp", replace)) = 2
           /\ \A i \in 1..2 : Provision("gcp", replace)[i][1] \in Setup
<1> DEFINE save == IF replace THEN "replace" ELSE "keep"
<1>1. save \in Setup
    BY DEF Setup
<1>verbs. {"role", "policy", "images", "group", "resources", save} \subseteq Verb
    BY DEF Verb
<1> HIDE DEF save
<1>2. \A c \in Cloud, v \in {"role", "policy", "images", "group", "resources", save} :
          <<v, c>> \in Step
    BY <1>verbs DEF Step
<1>clouds. {"aws", "azure", "gcp"} \subseteq Cloud
    BY DEF Cloud
<1>3. Provision("aws", replace) =
          << <<"role", "aws">>, <<"policy", "aws">>, <<"images", "aws">>, <<save, "aws">> >>
    BY DEF Provision, save
<1>4. Provision("azure", replace) =
          << <<"group", "azure">>, <<"resources", "azure">>, <<save, "azure">> >>
    BY DEF Provision, save
<1>5. Provision("gcp", replace) = << <<"images", "gcp">>, <<save, "gcp">> >>
    BY DEF Provision, save
<1>6. /\ <<"role", "aws">> \in Step /\ <<"policy", "aws">> \in Step
      /\ <<"images", "aws">> \in Step /\ <<save, "aws">> \in Step
      /\ <<"group", "azure">> \in Step /\ <<"resources", "azure">> \in Step
      /\ <<save, "azure">> \in Step
      /\ <<"images", "gcp">> \in Step /\ <<save, "gcp">> \in Step
    BY <1>2, <1>clouds
<1>tuples. /\ \A x, y, u, v \in Step : <<x, y, u, v>> \in Seq(Step)
           /\ \A x, y, u \in Step : <<x, y, u>> \in Seq(Step)
           /\ \A x, y \in Step : <<x, y>> \in Seq(Step)
    OBVIOUS
<1>7. /\ Provision("aws", replace) \in Seq(Step) /\ Len(Provision("aws", replace)) = 4
      /\ Provision("aws", replace)[1] = <<"role", "aws">>
      /\ Provision("aws", replace)[2] = <<"policy", "aws">>
      /\ \A i \in 3..4 : Provision("aws", replace)[i][1] \in Setup
    <2>1. \A i \in 3..4 : Provision("aws", replace)[i][1] \in Setup
        BY <1>1, <1>3 DEF Setup
    <2>2. Provision("aws", replace) \in Seq(Step)
        BY <1>3, <1>6, <1>tuples, Zenon
    <2>3. /\ Len(Provision("aws", replace)) = 4
          /\ Provision("aws", replace)[1] = <<"role", "aws">>
          /\ Provision("aws", replace)[2] = <<"policy", "aws">>
        BY <1>3
    <2> QED  BY <2>1, <2>2, <2>3
<1>8. /\ Provision("azure", replace) \in Seq(Step) /\ Len(Provision("azure", replace)) = 3
      /\ \A i \in 1..3 : Provision("azure", replace)[i][1] \in Setup
    <2>1. \A i \in 1..3 : Provision("azure", replace)[i][1] \in Setup
        BY <1>1, <1>4 DEF Setup
    <2>2. Provision("azure", replace) \in Seq(Step)
        BY <1>4, <1>6, <1>tuples, Zenon
    <2>3. /\ Len(Provision("azure", replace)) = 3
        BY <1>4
    <2> QED  BY <2>1, <2>2, <2>3
<1>9. /\ Provision("gcp", replace) \in Seq(Step) /\ Len(Provision("gcp", replace)) = 2
      /\ \A i \in 1..2 : Provision("gcp", replace)[i][1] \in Setup
    <2>1. \A i \in 1..2 : Provision("gcp", replace)[i][1] \in Setup
        BY <1>1, <1>5 DEF Setup
    <2>2. Provision("gcp", replace) \in Seq(Step)
        BY <1>5, <1>6, <1>tuples, Zenon
    <2>3. /\ Len(Provision("gcp", replace)) = 2
        BY <1>5
    <2> QED  BY <2>1, <2>2, <2>3
<1> QED  BY <1>7, <1>8, <1>9

\* go-live provisions the three clouds with nine calls, and then deploys.
LEMMA GoLiveCalls ==
    ASSUME NEW replace \in BOOLEAN
    PROVE  LET g == GoLive(replace) IN
           /\ g \in Seq(Step) /\ Len(g) = 26
           /\ g[1] = <<"role", "aws">> /\ g[2] = <<"policy", "aws">>
           /\ \A i \in 3..9 : g[i][1] \in Setup
           /\ \A i \in 1..4 : g[i] = Provision("aws", replace)[i]
           /\ \A i \in 1..3 : g[4 + i] = Provision("azure", replace)[i]
           /\ \A i \in 1..2 : g[7 + i] = Provision("gcp", replace)[i]
           /\ \A i \in 1..17 : g[9 + i] = BootstrapHosts[i]
           /\ SubSeq(g, 10, 26) = BootstrapHosts
<1> DEFINE p1 == Provision("aws", replace)
           p2 == Provision("azure", replace)
           p3 == Provision("gcp", replace)
           g1 == p1 \o p2
           g2 == g1 \o p3
           b  == BootstrapHosts
           g  == g2 \o b
<1>1. /\ p1 \in Seq(Step) /\ p2 \in Seq(Step) /\ p3 \in Seq(Step)
      /\ Len(p1) = 4 /\ Len(p2) = 3 /\ Len(p3) = 2
      /\ p1[1] = <<"role", "aws">> /\ p1[2] = <<"policy", "aws">>
    BY ProvisionCalls
<1>2. /\ \A i \in 3..4 : p1[i][1] \in Setup
      /\ \A i \in 1..3 : p2[i][1] \in Setup
      /\ \A i \in 1..2 : p3[i][1] \in Setup
    BY ProvisionCalls
<1>3. b \in Seq(Step) /\ Len(b) = 17
    BY BootstrapCalls
<1>4. GoLive(replace) = g
    BY DEF GoLive
<1> HIDE DEF p1, p2, p3, b
<1>5. /\ g1 \in Seq(Step) /\ Len(g1) = Len(p1) + Len(p2)
      /\ \A i \in 1..Len(p1) : g1[i] = p1[i]
      /\ \A i \in 1..Len(p2) : g1[Len(p1) + i] = p2[i]
    <2>1. p1 \in Seq(Step) /\ p2 \in Seq(Step) /\ g1 = p1 \o p2
        BY <1>1
    <2> HIDE DEF g1
    <2> QED  BY <2>1, Joined
<1> HIDE DEF g1
<1>6. /\ g2 \in Seq(Step) /\ Len(g2) = Len(g1) + Len(p3)
      /\ \A i \in 1..Len(g1) : g2[i] = g1[i]
      /\ \A i \in 1..Len(p3) : g2[Len(g1) + i] = p3[i]
    <2>1. g1 \in Seq(Step) /\ p3 \in Seq(Step) /\ g2 = g1 \o p3
        BY <1>1, <1>5
    <2> HIDE DEF g2
    <2> QED  BY <2>1, Joined
<1> HIDE DEF g2
<1>7. /\ g \in Seq(Step) /\ Len(g) = Len(g2) + Len(b)
      /\ \A i \in 1..Len(g2) : g[i] = g2[i]
      /\ \A i \in 1..Len(b) : g[Len(g2) + i] = b[i]
    <2>1. g2 \in Seq(Step) /\ b \in Seq(Step) /\ g = g2 \o b
        BY <1>3, <1>6
    <2> HIDE DEF g
    <2> QED  BY <2>1, Joined
<1> HIDE DEF g
<1>8. Len(g1) = 7 /\ Len(g2) = 9 /\ Len(g) = 26
    BY <1>1, <1>3, <1>5, <1>6, <1>7
<1>9. /\ \A i \in 1..7 : g[i] = g1[i]
      /\ \A i \in 1..2 : g[7 + i] = p3[i]
      /\ \A i \in 1..17 : g[9 + i] = b[i]
    BY <1>1, <1>3, <1>6, <1>7, <1>8
<1>10. SubSeq(g, 10, 26) = b
    <2> DEFINE q == SubSeq(g, 10, 26)
    <2>1. \A i \in 10..26 : g[i] \in Step
        <3>1. \A i \in 10..26 : i \in 1..Len(g)
            BY <1>8
        <3> QED  BY <1>7, <3>1, ElementOfSeq
    <2>2. /\ q \in Seq(Step) /\ Len(q) = 17
          /\ \A i \in 1..17 : q[i] = g[10 + i - 1]
        BY <2>1, SubSeqProperties
    <2>3. \A i \in 1..17 : 10 + i - 1 = 9 + i
        OBVIOUS
    <2>4. \A i \in 1..17 : q[i] = b[i]
        BY <1>9, <2>2, <2>3
    <2> HIDE DEF q
    <2>5. q = b
        BY <1>3, <2>2, <2>4, SeqEqual
    <2> QED  BY <2>5 DEF q
<1>11. /\ \A i \in 1..4 : g[i] = p1[i]
       /\ \A i \in 1..3 : g[4 + i] = p2[i]
    <2>1. \A i \in 1..3 : 4 + i \in 1..7
        OBVIOUS
    <2>2. /\ \A i \in 1..4 : g1[i] = p1[i]
          /\ \A i \in 1..3 : g1[4 + i] = p2[i]
        BY <1>1, <1>5
    <2> QED  BY <1>9, <2>1, <2>2
<1>12. \A i \in 3..9 : g[i][1] \in Setup
    <2> TAKE i \in 3..9
    <2>1. CASE i \in 3..4
        BY <2>1, <1>2, <1>11
    <2>2. CASE i \in 5..7
        <3>1. i - 4 \in 1..3 /\ 4 + (i - 4) = i
            BY <2>2
        <3> QED  BY <3>1, <1>2, <1>11
    <2>3. CASE i \in 8..9
        <3>1. i - 7 \in 1..2 /\ 7 + (i - 7) = i
            BY <2>3
        <3> QED  BY <3>1, <1>2, <1>9
    <2> QED  BY <2>1, <2>2, <2>3
<1>13. g[1] = <<"role", "aws">> /\ g[2] = <<"policy", "aws">>
    BY <1>1, <1>11
<1>14. /\ \A i \in 1..17 : g[9 + i] = BootstrapHosts[i]
       /\ SubSeq(g, 10, 26) = BootstrapHosts
    BY <1>9, <1>10 DEF b
<1>15. /\ \A i \in 1..4 : g[i] = Provision("aws", replace)[i]
       /\ \A i \in 1..3 : g[4 + i] = Provision("azure", replace)[i]
       /\ \A i \in 1..2 : g[7 + i] = Provision("gcp", replace)[i]
    BY <1>9, <1>11 DEF p1, p2, p3
<1> QED  BY <1>4, <1>7, <1>8, <1>12, <1>13, <1>14, <1>15, Zenon

-----------------------------------------------------------------------------
(* What every command has in common.                                       *)

\* A list that does not end in the last call of a bootstrap.
NoFinish(p) == \A i \in DOMAIN p : p[i][1] # "finish"

\* Making the role is followed by its policy, and a service is applied, rebased
\* and saved without another call in between.
Shape(p) ==
    /\ \A i \in DOMAIN p :
           p[i] = <<"role", "aws">> => i + 1 \in DOMAIN p /\ p[i + 1] = <<"policy", "aws">>
    /\ \A i \in DOMAIN p, s \in Service :
           i > 1 => /\ p[i] = <<"rebase", s>> => p[i - 1] = <<"apply", s>>
                    /\ p[i] = <<"save", s>> => p[i - 1] = <<"rebase", s>>

\* It stays so when the first call is made, and then the next one is its
\* successor.
LEMMA TailKeeps ==
    ASSUME NEW p \in Seq(Step), p # <<>>, Shape(p)
    PROVE  /\ Head(p) = p[1] /\ Tail(p) \in Seq(Step) /\ Shape(Tail(p))
           /\ NoFinish(p) => NoFinish(Tail(p))
           /\ Head(p) = <<"role", "aws">>
                  => Tail(p) # <<>> /\ Head(Tail(p)) = <<"policy", "aws">>
           /\ \A s \in Service : Tail(p) # <<>> =>
                  /\ Head(Tail(p)) = <<"rebase", s>> => Head(p) = <<"apply", s>>
                  /\ Head(Tail(p)) = <<"save", s>> => Head(p) = <<"rebase", s>>
<1> DEFINE q == Tail(p)
<1>1. /\ Len(p) \in Nat /\ DOMAIN p = 1..Len(p) /\ Len(p) >= 1
    BY LenProperties, EmptySeq
<1>2. /\ q \in Seq(Step) /\ Len(q) = Len(p) - 1 /\ DOMAIN q = 1..Len(p) - 1
      /\ \A i \in 1..Len(p) - 1 : q[i] = p[i + 1]
    <2>1. /\ q \in Seq(Step) /\ Len(q) = Len(p) - 1
          /\ \A i \in 1..Len(q) : q[i] = p[i + 1]
        BY HeadTailProperties
    <2>2. DOMAIN q = 1..Len(q)
        BY <2>1, LenProperties
    <2> QED  BY <2>1, <2>2
<1>3. Head(p) = p[1]
    BY <1>1
<1>4. q # <<>> => Head(q) = q[1] /\ 1 \in 1..Len(p) - 1
    <2> HIDE DEF q
    <2>1. q # <<>> => Len(q) >= 1
        BY <1>1, <1>2, EmptySeq
    <2> QED  BY <1>1, <1>2, <2>1
<1>5. Len(p) >= 2 => q # <<>>
    <2> HIDE DEF q
    <2> QED  BY <1>1, <1>2
<1> HIDE DEF q
<1>6. NoFinish(p) => NoFinish(q)
    <2>1. \A i \in 1..Len(p) - 1 : i + 1 \in 1..Len(p)
        BY <1>1
    <2> QED  BY <1>1, <1>2, <2>1 DEF NoFinish
<1>7. Shape(q)
    <2>1. ASSUME NEW i \in DOMAIN q, q[i] = <<"role", "aws">>
          PROVE  i + 1 \in DOMAIN q /\ q[i + 1] = <<"policy", "aws">>
        <3>1. i + 1 \in DOMAIN p /\ p[i + 1] = <<"role", "aws">>
            BY <1>1, <1>2, <2>1
        <3>2. (i + 1) + 1 \in DOMAIN p /\ p[(i + 1) + 1] = <<"policy", "aws">>
            BY <3>1 DEF Shape
        <3> QED  BY <1>1, <1>2, <2>1, <3>2
    <2>2. ASSUME NEW i \in DOMAIN q, NEW s \in Service, i > 1
          PROVE  /\ q[i] = <<"rebase", s>> => q[i - 1] = <<"apply", s>>
                 /\ q[i] = <<"save", s>> => q[i - 1] = <<"rebase", s>>
        <3>1. /\ i + 1 \in DOMAIN p /\ i + 1 > 1 /\ (i + 1) - 1 = i
              /\ q[i] = p[i + 1] /\ q[i - 1] = p[i]
            BY <1>1, <1>2, <2>2
        <3>2. /\ p[i + 1] = <<"rebase", s>> => p[(i + 1) - 1] = <<"apply", s>>
              /\ p[i + 1] = <<"save", s>> => p[(i + 1) - 1] = <<"rebase", s>>
            BY <3>1 DEF Shape
        <3> QED  BY <3>1, <3>2
    <2> QED  BY <2>1, <2>2 DEF Shape
<1>8. Head(p) = <<"role", "aws">> => q # <<>> /\ Head(q) = <<"policy", "aws">>
    <2> SUFFICES ASSUME p[1] = <<"role", "aws">>
                 PROVE  q # <<>> /\ Head(q) = <<"policy", "aws">>
        BY <1>3
    <2>1. 1 + 1 \in DOMAIN p /\ p[1 + 1] = <<"policy", "aws">>
        BY <1>1 DEF Shape
    <2>2. Len(p) >= 2
        BY <1>1, <2>1
    <2> QED  BY <1>2, <1>4, <1>5, <2>1, <2>2
<1>9. ASSUME NEW s \in Service, q # <<>>
      PROVE  /\ Head(q) = <<"rebase", s>> => Head(p) = <<"apply", s>>
             /\ Head(q) = <<"save", s>> => Head(p) = <<"rebase", s>>
    <2>1. Head(q) = p[2] /\ 2 \in DOMAIN p
        BY <1>1, <1>2, <1>4, <1>9
    <2>2. /\ p[2] = <<"rebase", s>> => p[1] = <<"apply", s>>
          /\ p[2] = <<"save", s>> => p[1] = <<"rebase", s>>
        <3>1. 2 > 1 /\ 2 - 1 = 1
            OBVIOUS
        <3> QED  BY <2>1, <3>1 DEF Shape
    <2> QED  BY <1>3, <2>1, <2>2
<1> QED  BY <1>2, <1>3, <1>6, <1>7, <1>8, <1>9 DEF q

\* Where the calls of a bootstrap are.
LEMMA Places ==
    ASSUME NEW i \in 1..17, NEW s \in Service
    PROVE  LET b == BootstrapHosts IN
           /\ b[i][1] \in {"apply", "rebase", "save", "link", "finish"}
           /\ b[i] = <<"apply", s>> => \/ s = "registry" /\ i = 1
                                       \/ s = "ingestion" /\ i \in {4, 14}
                                       \/ s = "risk" /\ i = 7
                                       \/ s = "anomaly" /\ i = 10
           /\ b[i] = <<"rebase", s>> => i > 1 /\ b[i - 1] = <<"apply", s>>
           /\ b[i] = <<"save", s>> => i > 2 /\ b[i - 1] = <<"rebase", s>>
                                            /\ b[i - 2] = <<"apply", s>>
           /\ b[i] = <<"link", "risk">> => i = 13
           /\ b[i] = <<"finish", "risk">> => i = 17
<1>. DEFINE b == BootstrapHosts
<1>1. /\ b[1]  = <<"apply", "registry">>   /\ b[2]  = <<"rebase", "registry">>
      /\ b[3]  = <<"save", "registry">>
      /\ b[4]  = <<"apply", "ingestion">>  /\ b[5]  = <<"rebase", "ingestion">>
      /\ b[6]  = <<"save", "ingestion">>
      /\ b[7]  = <<"apply", "risk">>       /\ b[8]  = <<"rebase", "risk">>
      /\ b[9]  = <<"save", "risk">>
      /\ b[10] = <<"apply", "anomaly">>    /\ b[11] = <<"rebase", "anomaly">>
      /\ b[12] = <<"save", "anomaly">>
      /\ b[13] = <<"link", "risk">>
      /\ b[14] = <<"apply", "ingestion">>  /\ b[15] = <<"rebase", "ingestion">>
      /\ b[16] = <<"save", "ingestion">>
      /\ b[17] = <<"finish", "risk">>
    BY BootstrapCalls
<1> HIDE DEF b
<1>2. i \in {1, 2, 3, 4, 5, 6, 7, 8, 9, 10, 11, 12, 13, 14, 15, 16, 17}
    OBVIOUS
<1>3. b[i][1] \in {"apply", "rebase", "save", "link", "finish"}
    BY <1>1, <1>2
<1>4. b[i] = <<"apply", s>> => \/ s = "registry" /\ i = 1
                               \/ s = "ingestion" /\ i \in {4, 14}
                               \/ s = "risk" /\ i = 7
                               \/ s = "anomaly" /\ i = 10
    BY <1>1, <1>2
<1>5. b[i] = <<"rebase", s>> => i > 1 /\ b[i - 1] = <<"apply", s>>
    BY <1>1, <1>2
<1>6. b[i] = <<"save", s>> => i > 2 /\ b[i - 1] = <<"rebase", s>>
                                    /\ b[i - 2] = <<"apply", s>>
    BY <1>1, <1>2
<1>7. /\ b[i] = <<"link", "risk">> => i = 13
      /\ b[i] = <<"finish", "risk">> => i = 17
    BY <1>1, <1>2
<1> QED  BY <1>3, <1>4, <1>5, <1>6, <1>7 DEF b

\* What a command may begin with, so that nothing is rebased or saved at once.
Fresh(p) == p # <<>> => \A s \in Service : Head(p) \notin {<<"rebase", s>>, <<"save", s>>}

\* Two bootstraps have the shape, ...
LEMMA BootstrapShape == Shape(BootstrapHosts) /\ Fresh(BootstrapHosts)
<1> DEFINE b == BootstrapHosts
<1>1. b \in Seq(Step) /\ Len(b) = 17 /\ DOMAIN b = 1..17 /\ b[1] = <<"apply", "registry">>
    BY BootstrapCalls, LenProperties
<1>2. \A i \in 1..17 : b[i] # <<"role", "aws">>
    <2>1. \A i \in 1..17 : b[i][1] # "role"
        <3>1. "registry" \in Service
            BY DEF Service, AwsService
        <3> QED  BY <3>1, Places
    <2> QED  BY <2>1
<1>3. \A i \in 1..17, s \in Service : /\ b[i] = <<"rebase", s>> => b[i - 1] = <<"apply", s>>
                                      /\ b[i] = <<"save", s>> => b[i - 1] = <<"rebase", s>>
    BY Places
<1> HIDE DEF b
<1>4. Shape(b)
    BY <1>1, <1>2, <1>3 DEF Shape
<1>5. Head(b) = <<"apply", "registry">>
    BY <1>1
<1>6. Fresh(b)
    BY <1>5 DEF Fresh
<1> QED  BY <1>4, <1>6 DEF b

\* ... go-live with or without --replace, ...
LEMMA GoLiveShape ==
    ASSUME NEW replace \in BOOLEAN
    PROVE  Shape(GoLive(replace)) /\ Fresh(GoLive(replace))
<1> DEFINE b == BootstrapHosts
           g == GoLive(replace)
<1>1. /\ g \in Seq(Step) /\ Len(g) = 26
      /\ g[1] = <<"role", "aws">> /\ g[2] = <<"policy", "aws">>
      /\ \A i \in 3..9 : g[i][1] \in Setup
      /\ \A i \in 1..17 : g[9 + i] = b[i]
    BY GoLiveCalls
<1>2. DOMAIN g = 1..26
    BY <1>1, LenProperties
<1>3. \A i \in 1..17, s \in Service :
          /\ b[i][1] \in {"apply", "rebase", "save", "link", "finish"}
          /\ b[i] = <<"rebase", s>> => i > 1 /\ b[i - 1] = <<"apply", s>>
          /\ b[i] = <<"save", s>> => i > 1 /\ b[i - 1] = <<"rebase", s>>
    BY Places
<1>4. "risk" \in Service
    BY DEF Service
<1> HIDE DEF g, b
<1>5. \A i \in 2..26 : g[i][1] # "role"
    <2> TAKE i \in 2..26
    <2>1. CASE i = 2
        BY <2>1, <1>1
    <2>2. CASE i \in 3..9
        BY <2>2, <1>1 DEF Setup
    <2>3. CASE i \in 10..26
        <3>1. i - 9 \in 1..17 /\ 9 + (i - 9) = i
            BY <2>3
        <3>2. g[i] = b[i - 9] /\ b[i - 9][1] \in {"apply", "rebase", "save", "link", "finish"}
            BY <1>1, <1>3, <1>4, <3>1
        <3> QED  BY <3>2
    <2> QED  BY <2>1, <2>2, <2>3
<1>6. ASSUME NEW i \in 2..26, NEW s \in Service
      PROVE  /\ g[i] = <<"rebase", s>> => g[i - 1] = <<"apply", s>>
             /\ g[i] = <<"save", s>> => g[i - 1] = <<"rebase", s>>
    <2>1. CASE i = 2
        BY <2>1, <1>1
    <2>2. CASE i \in 3..9
        <3>1. g[i][1] \notin {"rebase", "save"}
            BY <2>2, <1>1 DEF Setup
        <3> QED  BY <3>1
    <2>3. CASE i \in 10..26
        <3> DEFINE j == i - 9
        <3>1. j \in 1..17 /\ 9 + j = i /\ (j > 1 => j - 1 \in 1..17 /\ 9 + (j - 1) = i - 1)
            BY <2>3
        <3> HIDE DEF j
        <3>2. g[i] = b[j] /\ (j > 1 => g[i - 1] = b[j - 1])
            BY <1>1, <3>1
        <3> QED  BY <1>3, <3>1, <3>2
    <2> QED  BY <2>1, <2>2, <2>3
<1>7. Shape(g)
    <2>1. \A i \in 1..26 : g[i] = <<"role", "aws">> => i = 1
        <3>1. \A i \in 1..26 : i = 1 \/ i \in 2..26
            OBVIOUS
        <3> QED  BY <3>1, <1>5
    <2>2. \A i \in 1..26 : i > 1 => i \in 2..26
        OBVIOUS
    <2>3. 1 + 1 = 2 /\ 2 \in 1..26
        OBVIOUS
    <2> QED  BY <1>1, <1>2, <1>6, <2>1, <2>2, <2>3 DEF Shape
<1>8. Head(g) = <<"role", "aws">>
    BY <1>1
<1>9. Fresh(g)
    BY <1>8 DEF Fresh
<1> QED  BY <1>7, <1>9 DEF g

\* ... and the commands that do less, which have no last call of a bootstrap.
LEMMA OtherShapes ==
    /\ \A c \in Cloud, replace \in BOOLEAN :
           LET p == Provision(c, replace) IN
           p \in Seq(Step) /\ Shape(p) /\ Fresh(p) /\ NoFinish(p)
    /\ \A s \in Service :
           LET p == Deploy(s) IN p \in Seq(Step) /\ Shape(p) /\ Fresh(p) /\ NoFinish(p)
    /\ \A keep \in BOOLEAN :
           LET p == Teardown(keep) IN p \in Seq(Step) /\ Shape(p) /\ Fresh(p) /\ NoFinish(p)
<1>1. ASSUME NEW p \in Seq(Step), p # <<>>,
             \A i \in 1..Len(p) : p[i][1] \notin {"role", "rebase", "save", "finish"}
      PROVE  Shape(p) /\ Fresh(p) /\ NoFinish(p)
    <2>1. DOMAIN p = 1..Len(p) /\ Len(p) \in Nat /\ Len(p) >= 1
        BY <1>1, LenProperties, EmptySeq
    <2>2. Shape(p) /\ NoFinish(p)
        BY <1>1, <2>1 DEF Shape, NoFinish
    <2>3. Head(p) = p[1] /\ p[1][1] \notin {"rebase", "save"}
        BY <1>1, <2>1
    <2> QED  BY <2>2, <2>3 DEF Fresh
<1>2. ASSUME NEW c \in Cloud, NEW replace \in BOOLEAN, NEW p, p = Provision(c, replace)
      PROVE  p \in Seq(Step) /\ Shape(p) /\ Fresh(p) /\ NoFinish(p)
    <2>1. CASE c = "aws"
        <3>1. /\ p \in Seq(Step) /\ Len(p) = 4
              /\ p[1] = <<"role", "aws">> /\ p[2] = <<"policy", "aws">>
              /\ \A i \in 3..4 : p[i][1] \in Setup
            BY <1>2, <2>1, ProvisionCalls
        <3>2. DOMAIN p = 1..4
            BY <3>1, LenProperties
        <3>3. \A i \in 2..4 : p[i][1] \notin {"role", "rebase", "save", "finish"}
            <4>1. \A i \in 2..4 : i = 2 \/ i \in 3..4
                OBVIOUS
            <4> QED  BY <3>1, <4>1 DEF Setup
        <3>4. \A i \in 1..4 : i = 1 \/ i \in 2..4
            OBVIOUS
        <3>5. 1 + 1 \in 1..4 /\ 1 + 1 = 2
            OBVIOUS
        <3>6. Shape(p)
            BY <3>1, <3>2, <3>3, <3>4, <3>5 DEF Shape
        <3>7. NoFinish(p)
            BY <3>1, <3>2, <3>3, <3>4 DEF NoFinish
        <3>8. Head(p) = <<"role", "aws">>
            BY <3>1
        <3> QED  BY <3>1, <3>6, <3>7, <3>8 DEF Fresh
    <2>2. CASE c = "azure"
        <3>1. /\ p \in Seq(Step) /\ Len(p) = 3
              /\ \A i \in 1..3 : p[i][1] \in Setup
            BY <1>2, <2>2, ProvisionCalls
        <3>2. \A i \in 1..Len(p) : p[i][1] \notin {"role", "rebase", "save", "finish"}
            BY <3>1 DEF Setup
        <3>3. p # <<>>
            BY <3>1
        <3> QED  BY <3>1, <3>2, <3>3, <1>1
    <2>3. CASE c = "gcp"
        <3>1. /\ p \in Seq(Step) /\ Len(p) = 2
              /\ \A i \in 1..2 : p[i][1] \in Setup
            BY <1>2, <2>3, ProvisionCalls
        <3>2. \A i \in 1..Len(p) : p[i][1] \notin {"role", "rebase", "save", "finish"}
            BY <3>1 DEF Setup
        <3>3. p # <<>>
            BY <3>1
        <3> QED  BY <3>1, <3>2, <3>3, <1>1
    <2> QED  BY <2>1, <2>2, <2>3 DEF Cloud
<1>3. ASSUME NEW s \in Service, NEW p, p = Deploy(s)
      PROVE  p \in Seq(Step) /\ Shape(p) /\ Fresh(p) /\ NoFinish(p)
    <2>1. /\ p \in Seq(Step) /\ Len(p) = 3
          /\ p[1] = <<"apply", s>> /\ p[2] = <<"rebase", s>> /\ p[3] = <<"save", s>>
        BY <1>3, DeployCalls
    <2>2. DOMAIN p = {1, 2, 3}
        <3>1. DOMAIN p = 1..3
            BY <2>1, LenProperties
        <3> QED  BY <3>1
    <2>3. Shape(p)
        BY <2>1, <2>2 DEF Shape
    <2>4. NoFinish(p)
        BY <2>1, <2>2 DEF NoFinish
    <2>5. Head(p) = <<"apply", s>>
        BY <2>1
    <2> QED  BY <2>1, <2>3, <2>4, <2>5 DEF Fresh
<1>4. ASSUME NEW keep \in BOOLEAN, NEW p, p = Teardown(keep)
      PROVE  p \in Seq(Step) /\ Shape(p) /\ Fresh(p) /\ NoFinish(p)
    <2> DEFINE v == IF keep THEN "delete, keep storage" ELSE "delete"
               c == <<"aws", "gcp", "azure">>
    <2>1. v \in Verb /\ v \notin {"role", "rebase", "save", "finish"}
        BY DEF Verb
    <2>2. \A i \in 1..3 : c[i] \in Cloud
        BY DEF Cloud
    <2>3. p = [i \in 1..3 |-> <<v, c[i]>>]
        BY <1>4 DEF Teardown
    <2> HIDE DEF v, c
    <2>4. \A i \in 1..3 : <<v, c[i]>> \in Step
        BY <2>1, <2>2 DEF Step
    <2>5. p \in Seq(Step) /\ Len(p) = 3
        BY <2>3, <2>4
    <2>6. \A i \in 1..3 : p[i][1] \notin {"role", "rebase", "save", "finish"}
        BY <2>1, <2>3
    <2>7. p # <<>>
        BY <2>5
    <2> QED  BY <2>5, <2>6, <2>7, <1>1
<1> QED  BY <1>2, <1>3, <1>4

-----------------------------------------------------------------------------
(* Types.                                                                  *)

TypeInv == TypeOK /\ Shape(plan)

\* One call less to make.
LEMMA CallEffect ==
    ASSUME TypeInv, NEW op, NEW x, Call(op, x)
    PROVE  /\ plan' \in Seq(Step) /\ Shape(plan') /\ plan # <<>>
           /\ UNCHANGED <<stops, commands, teardowns>>
<1>1. plan \in Seq(Step) /\ Shape(plan) /\ plan # <<>> /\ plan' = Tail(plan)
    BY DEF TypeInv, TypeOK, Call, At
<1>2. Tail(plan) \in Seq(Step) /\ Shape(Tail(plan))
    BY <1>1, TailKeeps
<1>3. UNCHANGED <<stops, commands, teardowns>>
    BY DEF Call, bounds
<1> QED  BY <1>1, <1>2, <1>3

\* A command begins with nothing but its list of calls.
LEMMA BeginEffect ==
    ASSUME BeginGoLive \/ BeginCommand \/ BeginTeardown
    PROVE  /\ plan = <<>> /\ live' = "no" /\ known' \in {Unknown, recorded}
           /\ UNCHANGED <<cloud, files, created>>
           /\ plan' \in Seq(Step) /\ Shape(plan') /\ Fresh(plan')
           /\ \/ NoFinish(plan')
              \/ \E replace \in BOOLEAN : plan' = GoLive(replace)
              \/ plan' = BootstrapHosts
<1>1. ASSUME NEW calls, NEW endpoints, Begin(calls, endpoints)
      PROVE  /\ plan = <<>> /\ live' = "no" /\ known' = endpoints /\ plan' = calls
             /\ UNCHANGED <<cloud, files, created>>
    BY <1>1 DEF Begin
<1>2. CASE BeginGoLive
    <2>1. Begin(GoLive(FALSE), Unknown)
        BY <1>2 DEF BeginGoLive
    <2>2. GoLive(FALSE) \in Seq(Step)
        BY GoLiveCalls
    <2> QED  BY <2>1, <2>2, <1>1, GoLiveShape
<1>3. CASE BeginTeardown
    <2>1. PICK keep \in BOOLEAN : Begin(Teardown(keep), Unknown)
        BY <1>3 DEF BeginTeardown
    <2> QED  BY <2>1, <1>1, OtherShapes
<1>4. CASE BeginCommand
    <2>1. \/ Begin(GoLive(TRUE), Unknown)
          \/ \E c \in Cloud, replace \in BOOLEAN : Begin(Provision(c, replace), Unknown)
          \/ \E s \in Service : Begin(Deploy(s), recorded)
          \/ Begin(BootstrapHosts, Unknown)
        BY <1>4 DEF BeginCommand
    <2>2. CASE Begin(GoLive(TRUE), Unknown)
        <3>1. GoLive(TRUE) \in Seq(Step)
            BY GoLiveCalls
        <3> QED  BY <2>2, <3>1, <1>1, GoLiveShape
    <2>3. ASSUME NEW c \in Cloud, NEW replace \in BOOLEAN, Begin(Provision(c, replace), Unknown)
          PROVE  /\ plan = <<>> /\ live' = "no" /\ known' = Unknown
                 /\ UNCHANGED <<cloud, files, created>>
                 /\ plan' \in Seq(Step) /\ Shape(plan') /\ Fresh(plan') /\ NoFinish(plan')
        BY <2>3, <1>1, OtherShapes
    <2>4. ASSUME NEW s \in Service, Begin(Deploy(s), recorded)
          PROVE  /\ plan = <<>> /\ live' = "no" /\ known' = recorded
                 /\ UNCHANGED <<cloud, files, created>>
                 /\ plan' \in Seq(Step) /\ Shape(plan') /\ Fresh(plan') /\ NoFinish(plan')
        BY <2>4, <1>1, OtherShapes
    <2>5. CASE Begin(BootstrapHosts, Unknown)
        <3>1. BootstrapHosts \in Seq(Step)
            BY BootstrapCalls
        <3> QED  BY <2>5, <3>1, <1>1, BootstrapShape
    <2> QED  BY <2>1, <2>2, <2>3, <2>4, <2>5
<1> QED  BY <1>2, <1>3, <1>4

\* What a service is told is a table of addresses.
LEMMA SettingsType ==
    ASSUME TypeOK, NEW s \in Service
    PROVE  /\ NoUrl \in Url /\ Bootstrap \in Url /\ Unknown \in [Service -> Url]
           /\ Settings(s, Provisional(s)) \in [Service -> Url]
<1>1. NoUrl \in Url /\ Bootstrap \in Url
    BY DEF NoUrl, Bootstrap, Url
<1>2. recorded \in [Service -> Url] /\ known \in [Service -> Url]
    BY DEF TypeOK
<1>3. Provisional(s) \in Url
    BY <1>1, <1>2 DEF Provisional
<1> QED  BY <1>1, <1>2, <1>3 DEF Settings, Unknown

\* The manifests keep their types when one is written.
LEMMA SaveTypes ==
    ASSUME TypeOK, NEW c \in Cloud, NEW urls \in [Service -> Url], SaveManifest(c, urls)
    PROVE  /\ manifest' \in [Cloud -> {"missing", "empty", "broken", "saved"}]
           /\ recorded' \in [Service -> Url]
BY DEF SaveManifest, TypeOK

\* The clouds of the services are clouds.
LEMMA CloudOfType == /\ CloudOf("registry") = "aws" /\ CloudOf("ingestion") = "aws"
                     /\ CloudOf("risk") = "gcp" /\ CloudOf("anomaly") = "azure"
                     /\ \A s \in Service : CloudOf(s) \in Cloud
<1>1. CloudOf("registry") = "aws" /\ CloudOf("ingestion") = "aws"
    BY DEF CloudOf, AwsService
<1>2. CloudOf("risk") = "gcp" /\ CloudOf("anomaly") = "azure"
    BY DEF CloudOf, AwsService
<1> QED  BY <1>1, <1>2 DEF Service, AwsService, Cloud

\* The initial state is well typed.
LEMMA InitTypeInv == Init => TypeInv
<1> SUFFICES ASSUME Init PROVE TypeInv
    OBVIOUS
<1>1. NoUrl \in Url /\ Unknown \in [Service -> Url]
    BY DEF NoUrl, Unknown, Url
<1>2. plan \in Seq(Step) /\ Shape(plan)
    <2>1. plan = <<>>
        BY DEF Init
    <2>2. <<>> \in Seq(Step) /\ DOMAIN <<>> = {}
        BY EmptySeq
    <2> QED  BY <2>1, <2>2 DEF Shape
<1>3. {stops, commands, teardowns} \subseteq Nat
    BY DEF Init
<1> QED  BY <1>1, <1>2, <1>3 DEF Init, TypeInv, TypeOK

\* No step breaks the types.
LEMMA StepTypeInv == TypeInv /\ [Next]_vars => TypeInv'
<1> SUFFICES ASSUME TypeInv, [Next]_vars PROVE TypeInv'
    OBVIOUS
<1>types. TypeOK /\ Shape(plan)
    BY DEF TypeInv
<1>call. ASSUME NEW op, NEW x, Call(op, x)
         PROVE  /\ plan' \in Seq(Step) /\ Shape(plan')
                /\ UNCHANGED <<stops, commands, teardowns>>
    BY <1>call, CallEffect
<1>empty. <<>> \in Seq(Step) /\ Shape(<<>>)
    <2>1. <<>> \in Seq(Step) /\ DOMAIN <<>> = {}
        BY EmptySeq
    <2> QED  BY <2>1 DEF Shape
<1>1. CASE BeginGoLive \/ BeginCommand \/ BeginTeardown
    <2>1. /\ live' = "no" /\ known' \in {Unknown, recorded}
          /\ UNCHANGED <<cloud, files, created>>
          /\ plan' \in Seq(Step) /\ Shape(plan')
        BY <1>1, BeginEffect
    <2>2. known' \in [Service -> Url]
        BY <2>1, <1>types, SettingsType DEF TypeOK, Service
    <2>3. {stops', commands', teardowns'} \subseteq Nat
        <3>1. stops \in Nat /\ commands \in Nat /\ teardowns \in Nat
            BY <1>types DEF TypeOK
        <3>2. /\ stops' = stops /\ commands' \in {commands, commands + 1}
              /\ teardowns' \in {teardowns, teardowns + 1}
            BY <1>1 DEF BeginGoLive, BeginCommand, BeginTeardown, bounds
        <3> QED  BY <3>1, <3>2
    <2> QED  BY <2>1, <2>2, <2>3, <1>types DEF TypeInv, TypeOK, cloud, files
<1>2. CASE EnsureRole
    <2>1. /\ plan # <<>> /\ Head(plan) = <<"role", "aws">>
          /\ plan' = Tail(plan) \/ plan' = Tail(Tail(plan))
          /\ role' \in {"bare", role}
          /\ UNCHANGED <<app, url, env, portfolio, images, group, files, known, live,
                         created, bounds>>
        BY <1>2 DEF EnsureRole, At
    <2>2. Tail(plan) \in Seq(Step) /\ Shape(Tail(plan)) /\ Tail(plan) # <<>>
        BY <2>1, <1>types, TailKeeps DEF TypeOK
    <2>3. Tail(Tail(plan)) \in Seq(Step) /\ Shape(Tail(Tail(plan)))
        BY <2>2, TailKeeps
    <2> QED  BY <2>1, <2>2, <2>3, <1>types DEF TypeInv, TypeOK, files, bounds
<1>3. CASE AttachPolicy
    BY <1>3, <1>types, <1>call DEF AttachPolicy, TypeInv, TypeOK, files
<1>4. CASE EnsureImages
    <2>1. PICK c \in {"aws", "gcp"} : Call("images", c) /\ images' = images \cup {c}
        BY <1>4 DEF EnsureImages
    <2> QED  BY <1>4, <2>1, <1>types, <1>call DEF EnsureImages, TypeInv, TypeOK, files
<1>5. CASE EnsureGroup
    BY <1>5, <1>types, <1>call DEF EnsureGroup, TypeInv, TypeOK, files
<1>6. CASE EnsureResources
    BY <1>6, <1>types, <1>call DEF EnsureResources, TypeInv, TypeOK, files
<1>7. ASSUME NEW c \in Cloud, SaveProvisioned(c) PROVE TypeInv'
    <2>1. PICK op \in {"keep", "replace"} :
              /\ Call(op, c)
              /\ SaveManifest(c, IF c # "aws" THEN url
                                 ELSE IF op = "keep" THEN recorded ELSE Unknown)
        BY <1>7 DEF SaveProvisioned
    <2>2. (IF c # "aws" THEN url ELSE IF op = "keep" THEN recorded ELSE Unknown)
              \in [Service -> Url]
        BY <1>types, SettingsType DEF TypeOK, Service
    <2>3. /\ manifest' \in [Cloud -> {"missing", "empty", "broken", "saved"}]
          /\ recorded' \in [Service -> Url]
        BY <2>1, <2>2, <1>types, SaveTypes
    <2> QED  BY <1>7, <2>1, <2>3, <1>types, <1>call
             DEF SaveProvisioned, TypeInv, TypeOK, cloud
<1>8. ASSUME NEW c \in Cloud, Delete(c) PROVE TypeInv'
    <2>1. PICK keep \in BOOLEAN :
              Call(IF keep THEN "delete, keep storage" ELSE "delete", c)
        BY <1>8 DEF Delete
    <2>2. /\ plan' \in Seq(Step) /\ Shape(plan')
          /\ UNCHANGED <<stops, commands, teardowns>>
        BY <2>1, <1>call
    <2>3. /\ app' \in [Service -> {"absent", "running", "create_failed"}]
          /\ url' \in [Service -> Url]
        <3>1. \A s \in Service : /\ app[s] \in {"absent", "running", "create_failed"}
                                  /\ url[s] \in Url
            BY <1>types DEF TypeOK
        <3>2. NoUrl \in Url
            BY DEF NoUrl, Url
        <3> DEFINE gone == CASE c = "aws"   -> {s \in AwsService : recorded[s] = url[s]}
                             [] c = "gcp"   -> {"risk"}
                             [] c = "azure" -> {}
                   readable == manifest[c] = "saved"
        <3>3. /\ app' = [s \in Service |-> IF readable /\ s \in gone THEN "absent"
                                   ELSE app[s]]
              /\ url' = [s \in Service |-> IF readable /\ s \in gone THEN NoUrl
                                           ELSE url[s]]
            BY <1>8 DEF Delete
        <3> HIDE DEF gone, readable
        <3> QED  BY <3>1, <3>2, <3>3
    <2>4. /\ portfolio' \in BOOLEAN /\ images' \subseteq {"aws", "gcp"}
          /\ role' \in {"absent", "bare", "attached"}
          /\ group' \in {"absent", "bare", "ready", "deleting"}
          /\ UNCHANGED <<env, manifest, recorded, known, live, created>>
        BY <1>8, <1>types DEF Delete, TypeOK, files
    <2> QED  BY <2>2, <2>3, <2>4, <1>types DEF TypeInv, TypeOK
<1>9. ASSUME NEW s \in Service, Create(s) PROVE TypeInv'
    <2>1. created[s] \in Nat /\ <<s, created[s] + 1>> \in Url
        BY <1>types DEF TypeOK, Url
    <2>2. /\ created' \in [Service -> Nat] /\ url' \in [Service -> Url]
          /\ env' \in [Service -> [Service -> Url]]
        BY <1>9, <2>1, <1>types, SettingsType DEF Create, TypeOK
    <2>3. app' \in [Service -> {"absent", "running", "create_failed"}] /\ portfolio' \in BOOLEAN
        BY <1>9, <1>types DEF Create, TypeOK, Restarts
    <2> QED  BY <1>9, <2>2, <2>3, <1>types, <1>call DEF Create, TypeInv, TypeOK, files
<1>10. ASSUME NEW s \in Service, Update(s) PROVE TypeInv'
    <2>1. env' \in [Service -> [Service -> Url]] /\ portfolio' \in BOOLEAN
        BY <1>10, <1>types, SettingsType DEF Update, TypeOK, Restarts
    <2> QED  BY <1>10, <2>1, <1>types, <1>call DEF Update, TypeInv, TypeOK, files
<1>11. ASSUME NEW s \in Service, Rebase(s) PROVE TypeInv'
    <2>1. url[s] \in Url /\ env \in [Service -> [Service -> Url]] /\ portfolio \in BOOLEAN
        BY <1>types DEF TypeOK
    <2>2. env' \in {env, [env EXCEPT ![s][s] = url[s]]}
        BY <1>11 DEF Rebase
    <2>3. env' \in [Service -> [Service -> Url]] /\ portfolio' \in BOOLEAN
        <3>1. [env EXCEPT ![s][s] = url[s]] \in [Service -> [Service -> Url]]
            <4>1. [env[s] EXCEPT ![s] = url[s]] \in [Service -> Url]
                BY <2>1
            <4> QED  BY <2>1, <4>1
        <3>2. portfolio' \in BOOLEAN
            BY <1>11, <2>1 DEF Rebase, Restarts
        <3> QED  BY <2>1, <2>2, <3>1, <3>2
    <2> QED  BY <1>11, <2>3, <1>types, <1>call DEF Rebase, TypeInv, TypeOK, files
<1>12. ASSUME NEW s \in Service, SaveDeployed(s) PROVE TypeInv'
    <2>1. [recorded EXCEPT ![s] = url[s]] \in [Service -> Url]
        BY <1>types DEF TypeOK
    <2>2. /\ manifest' \in [Cloud -> {"missing", "empty", "broken", "saved"}]
          /\ recorded' \in [Service -> Url]
        BY <1>12, <2>1, <1>types, SaveTypes, CloudOfType DEF SaveDeployed
    <2>3. known' \in [Service -> Url]
        BY <1>12, <1>types DEF SaveDeployed, TypeOK
    <2> QED  BY <1>12, <2>2, <2>3, <1>types, <1>call DEF SaveDeployed, TypeInv, TypeOK, cloud
<1>13. CASE LinkRisk
    <2>1. env' \in [Service -> [Service -> Url]] /\ portfolio' \in BOOLEAN
        BY <1>13, <1>types DEF LinkRisk, TypeOK, Restarts, Service
    <2> QED  BY <1>13, <2>1, <1>types, <1>call DEF LinkRisk, TypeInv, TypeOK, files
<1>14. CASE Finish
    BY <1>14, <1>types, <1>call DEF Finish, TypeInv, TypeOK, files
<1>15. CASE Exit
    BY <1>15, <1>types, <1>empty DEF Exit, TypeInv, TypeOK, cloud, files, bounds
<1>16. CASE GroupGone
    <2>1. url' \in [Service -> Url]
        BY <1>16, <1>types, SettingsType DEF GroupGone, TypeOK, Service
    <2> QED  BY <1>16, <2>1, <1>types DEF GroupGone, TypeInv, TypeOK, files, bounds
<1>17. CASE Stop
    BY <1>17, <1>types, <1>empty DEF Stop, TypeInv, TypeOK, cloud, files
<1>18. CASE StopInSave
    <2>1. /\ manifest' \in [Cloud -> {"missing", "empty", "broken", "saved"}]
          /\ recorded' \in [Service -> Url]
        BY <1>18, <1>types, SettingsType DEF StopInSave, TypeOK, Service
    <2> QED  BY <1>18, <2>1, <1>types, <1>empty DEF StopInSave, TypeInv, TypeOK, cloud
<1>19. CASE UNCHANGED vars
    BY <1>19, <1>types DEF vars, cloud, files, bounds, TypeInv, TypeOK
<1> QED
    BY <1>1, <1>2, <1>3, <1>4, <1>5, <1>6, <1>7, <1>8, <1>9, <1>10, <1>11, <1>12,
       <1>13, <1>14, <1>15, <1>16, <1>17, <1>18, <1>19 DEF Next, Progress, DeployStep

\* Every variable keeps its type, and every command the order of its calls.
THEOREM TypeCorrect == Spec => []TypeOK
<1>1. TypeInv => TypeOK
    BY DEF TypeInv
<1> QED  BY InitTypeInv, StepTypeInv, <1>1, PTL DEF Spec

-----------------------------------------------------------------------------
(* An address that is recorded was configured.                             *)

\* Address u was given to service s when it was created.
IsGiven(s, u) == \E n \in 1..created[s] : u = <<s, n>>

\* Nothing else is an address of a service, so that a new one is new.
AddressInv ==
    \A s \in Service :
        /\ url[s] = NoUrl \/ IsGiven(s, url[s])
        /\ recorded[s] = NoUrl \/ IsGiven(s, recorded[s])
        /\ app[s] # "absent" => url[s] # NoUrl

\* What saving a manifest does to the addresses.
LEMMA SaveEffect ==
    ASSUME TypeOK, NEW c \in Cloud, NEW urls, SaveManifest(c, urls)
    PROVE  /\ manifest' = [manifest EXCEPT ![c] = "saved"] /\ manifest'[c] = "saved"
           /\ \A s \in Service : recorded'[s] = IF CloudOf(s) = c THEN urls[s] ELSE recorded[s]
BY DEF SaveManifest, ServicesOf, TypeOK

\* What the end of a deployment records.
LEMMA SavedEffect ==
    ASSUME TypeOK, NEW s \in Service, SaveDeployed(s)
    PROVE  /\ manifest' = [manifest EXCEPT ![CloudOf(s)] = "saved"]
           /\ manifest'[CloudOf(s)] = "saved" /\ recorded'[s] = url[s]
           /\ \A r \in Service \ {s} : recorded'[r] = recorded[r]
           /\ \A r \in Service : recorded'[r] \in {url[r], recorded[r]}
           /\ known' = [known EXCEPT ![s] = url[s]] /\ known'[s] = url[s]
           /\ \A r \in Service \ {s} : known'[r] = known[r]
           /\ UNCHANGED <<app, url, env, group, live>>
           /\ Call("save", s)
<1> DEFINE urls == [recorded EXCEPT ![s] = url[s]]
<1>1. /\ SaveManifest(CloudOf(s), urls) /\ known' = [known EXCEPT ![s] = url[s]]
      /\ UNCHANGED <<app, url, env, group, live>> /\ Call("save", s)
    BY DEF SaveDeployed, cloud
<1>2. urls[s] = url[s] /\ \A r \in Service \ {s} : urls[r] = recorded[r]
    BY DEF TypeOK
<1>3. known'[s] = url[s] /\ \A r \in Service \ {s} : known'[r] = known[r]
    BY <1>1 DEF TypeOK
<1> HIDE DEF urls
<1>4. CloudOf(s) \in Cloud
    BY CloudOfType
<1>5. /\ manifest' = [manifest EXCEPT ![CloudOf(s)] = "saved"]
      /\ manifest'[CloudOf(s)] = "saved"
      /\ \A r \in Service : recorded'[r] = IF CloudOf(r) = CloudOf(s) THEN urls[r]
                                            ELSE recorded[r]
    BY <1>1, <1>4, SaveEffect
<1>6. recorded'[s] = url[s] /\ \A r \in Service \ {s} : recorded'[r] = recorded[r]
    BY <1>2, <1>5
<1> QED  BY <1>1, <1>3, <1>5, <1>6

\* What a teardown does to the services.
LEMMA DeleteEffect ==
    ASSUME TypeOK, NEW c \in Cloud, Delete(c)
    PROVE  /\ \A s \in Service : \/ app'[s] = app[s] /\ url'[s] = url[s]
                                 \/ app'[s] = "absent" /\ url'[s] = NoUrl
           /\ UNCHANGED <<env, manifest, recorded, known, live, created>>
           /\ \E op \in {"delete", "delete, keep storage"} : Call(op, c)
<1> DEFINE gone == CASE c = "aws"   -> {s \in AwsService : recorded[s] = url[s]}
                     [] c = "gcp"   -> {"risk"}
                     [] c = "azure" -> {}
           readable == manifest[c] = "saved"
<1>1. /\ app' = [s \in Service |-> IF readable /\ s \in gone THEN "absent" ELSE app[s]]
      /\ url' = [s \in Service |-> IF readable /\ s \in gone THEN NoUrl ELSE url[s]]
    BY DEF Delete
<1>2. UNCHANGED <<env, manifest, recorded, known, live, created>>
    BY DEF Delete, files
<1>3. \E op \in {"delete", "delete, keep storage"} : Call(op, c)
    BY DEF Delete
<1> HIDE DEF gone, readable
<1> QED  BY <1>1, <1>2, <1>3

\* No step invents an address.
LEMMA StepAddressInv == TypeInv /\ AddressInv /\ [Next]_vars => AddressInv'
<1> SUFFICES ASSUME TypeInv, AddressInv, [Next]_vars PROVE AddressInv'
    OBVIOUS
<1>types. TypeOK
    BY DEF TypeInv
<1>same. ASSUME UNCHANGED created
         PROVE  \A s, u : IsGiven(s, u) <=> \E n \in 1..created'[s] : u = <<s, n>>
    BY <1>same DEF IsGiven
<1>still. ASSUME UNCHANGED <<app, url, recorded, created>> PROVE AddressInv'
    BY <1>still DEF AddressInv, IsGiven
<1>1. CASE BeginGoLive \/ BeginCommand \/ BeginTeardown
    BY <1>1, BeginEffect, <1>still DEF cloud, files
<1>2. CASE EnsureRole \/ AttachPolicy \/ EnsureImages \/ EnsureGroup \/ EnsureResources
    BY <1>2, <1>still DEF EnsureRole, AttachPolicy, EnsureImages, EnsureGroup,
                          EnsureResources, files
<1>3. ASSUME NEW c \in Cloud, SaveProvisioned(c) PROVE AddressInv'
    <2>1. PICK op \in {"keep", "replace"} :
              SaveManifest(c, IF c # "aws" THEN url
                              ELSE IF op = "keep" THEN recorded ELSE Unknown)
        BY <1>3 DEF SaveProvisioned
    <2>2. \A s \in Service : recorded'[s] \in {url[s], recorded[s], NoUrl}
        BY <2>1, <1>types, SaveEffect DEF Unknown
    <2>3. UNCHANGED <<app, url, created>>
        BY <1>3 DEF SaveProvisioned, cloud
    <2> QED  BY <2>2, <2>3 DEF AddressInv, IsGiven
<1>4. ASSUME NEW c \in Cloud, Delete(c) PROVE AddressInv'
    <2>1. /\ \A s \in Service : \/ app'[s] = app[s] /\ url'[s] = url[s]
                                \/ app'[s] = "absent" /\ url'[s] = NoUrl
          /\ UNCHANGED <<recorded, created>>
        BY <1>4, <1>types, DeleteEffect
    <2> QED  BY <2>1 DEF AddressInv, IsGiven
<1>5. ASSUME NEW s \in Service, Create(s) PROVE AddressInv'
    <2>1. /\ created' = [created EXCEPT ![s] = created[s] + 1]
          /\ url' = [url EXCEPT ![s] = <<s, created[s] + 1>>]
          /\ UNCHANGED recorded
          /\ \A r \in Service \ {s} : app'[r] = app[r]
        BY <1>5, <1>types DEF Create, TypeOK, files
    <2>2. created[s] \in Nat /\ created \in [Service -> Nat] /\ url \in [Service -> Url]
        BY <1>types DEF TypeOK
    <2>3. /\ created'[s] = created[s] + 1 /\ url'[s] = <<s, created[s] + 1>>
          /\ \A r \in Service \ {s} : created'[r] = created[r] /\ url'[r] = url[r]
        BY <2>1, <2>2
    <2>4. 1..created[s] \subseteq 1..created'[s] /\ created[s] + 1 \in 1..created'[s]
        BY <2>2, <2>3
    <2>5. \A r \in Service : \A u : IsGiven(r, u) => \E n \in 1..created'[r] : u = <<r, n>>
        BY <2>3, <2>4 DEF IsGiven
    <2>6. url'[s] # NoUrl /\ \E n \in 1..created'[s] : url'[s] = <<s, n>>
        BY <2>2, <2>3, <2>4 DEF NoUrl
    <2>7. \A r \in Service : /\ url'[r] = NoUrl \/ \E n \in 1..created'[r] : url'[r] = <<r, n>>
                             /\ app'[r] # "absent" => url'[r] # NoUrl
        BY <2>1, <2>3, <2>5, <2>6 DEF AddressInv
    <2>8. \A r \in Service : recorded'[r] = NoUrl
                                 \/ \E n \in 1..created'[r] : recorded'[r] = <<r, n>>
        BY <2>1, <2>5 DEF AddressInv
    <2> QED  BY <2>7, <2>8 DEF AddressInv, IsGiven
<1>6. ASSUME NEW s \in Service, Update(s) \/ Rebase(s) PROVE AddressInv'
    BY <1>6, <1>still DEF Update, Rebase, files
<1>7. ASSUME NEW s \in Service, SaveDeployed(s) PROVE AddressInv'
    <2>1. \A r \in Service : recorded'[r] \in {url[r], recorded[r]}
        BY <1>7, <1>types, SavedEffect
    <2>2. UNCHANGED <<app, url, created>>
        BY <1>7 DEF SaveDeployed, cloud
    <2> QED  BY <2>1, <2>2 DEF AddressInv, IsGiven
<1>8. CASE LinkRisk \/ Finish \/ Exit \/ Stop
    BY <1>8, <1>still DEF LinkRisk, Finish, Exit, Stop, cloud, files
<1>9. CASE GroupGone
    <2>1. /\ \A s \in Service : \/ app'[s] = app[s] /\ url'[s] = url[s]
                                \/ app'[s] = "absent" /\ url'[s] = NoUrl
          /\ UNCHANGED <<recorded, created>>
        BY <1>9, <1>types DEF GroupGone, files, TypeOK
    <2> QED  BY <2>1 DEF AddressInv, IsGiven
<1>10. CASE StopInSave
    <2>1. /\ \A s \in Service : recorded'[s] \in {recorded[s], NoUrl}
          /\ UNCHANGED <<app, url, created>>
        BY <1>10 DEF StopInSave, cloud
    <2> QED  BY <2>1 DEF AddressInv, IsGiven
<1>11. CASE UNCHANGED vars
    BY <1>11, <1>still DEF vars, cloud, files
<1> QED
    BY <1>1, <1>2, <1>3, <1>4, <1>5, <1>6, <1>7, <1>8, <1>9, <1>10, <1>11
    DEF Next, Progress, DeployStep

\* Before a service is rebased it has the address that is corrected then; before
\* it is saved an AWS service has the one that is recorded then.
HeadInv ==
    plan # <<>> => \A s \in Service :
        /\ Head(plan) = <<"rebase", s>> => env[s][s] = Provisional(s)
        /\ Head(plan) = <<"save", s>> /\ s \in AwsService => env[s][s] = url[s]

\* Which call comes before which.
LEMMA NextHead ==
    ASSUME TypeInv, NEW op, NEW x, Call(op, x), plan' # <<>>, NEW s \in Service
    PROVE  /\ Head(plan') = <<"rebase", s>> => op = "apply" /\ x = s
           /\ Head(plan') = <<"save", s>> => op = "rebase" /\ x = s
<1>1. /\ plan \in Seq(Step) /\ Shape(plan) /\ plan # <<>> /\ plan' = Tail(plan)
      /\ Head(plan) = <<op, x>>
    BY DEF TypeInv, TypeOK, Call, At
<1>2. /\ Head(plan') = <<"rebase", s>> => Head(plan) = <<"apply", s>>
      /\ Head(plan') = <<"save", s>> => Head(plan) = <<"rebase", s>>
    BY <1>1, TailKeeps
<1> QED  BY <1>1, <1>2

\* What a service is told of its own address.
LEMMA ApplyEffect ==
    ASSUME TypeOK, NEW s \in Service, Create(s) \/ Update(s)
    PROVE  /\ env' = [env EXCEPT ![s] = Settings(s, Provisional(s))]
           /\ env'[s] = Settings(s, Provisional(s)) /\ env'[s][s] = Provisional(s)
           /\ \A r \in Service \ {s} : env'[r] = env[r]
           /\ UNCHANGED <<manifest, recorded, group, known, live>>
           /\ Call("apply", s)
<1>1. /\ env' = [env EXCEPT ![s] = Settings(s, Provisional(s))]
      /\ UNCHANGED <<manifest, recorded, group, known, live>> /\ Call("apply", s)
    BY DEF Create, Update, files
<1>2. Settings(s, Provisional(s))[s] = Provisional(s)
    BY DEF Settings
<1> QED  BY <1>1, <1>2 DEF TypeOK

\* Afterwards a service knows the address it has.
LEMMA RebaseEffect ==
    ASSUME TypeOK, AddressInv, HeadInv, NEW s \in Service, Rebase(s)
    PROVE  /\ env'[s][s] = url[s] /\ app[s] = "running"
           /\ \A r \in Service \ {s} : env'[s][r] = env[s][r]
           /\ \A r \in Service \ {s} : env'[r] = env[r]
           /\ UNCHANGED <<app, url, group, manifest, recorded, known, live>>
           /\ Call("rebase", s)
<1>1. /\ app[s] = "running" /\ Call("rebase", s)
      /\ UNCHANGED <<app, url, group, manifest, recorded, known, live>>
      /\ \/ env' = [env EXCEPT ![s][s] = url[s]]
         \/ env' = env /\ url[s] = Provisional(s)
    BY DEF Rebase, files
<1>2. plan # <<>> /\ Head(plan) = <<"rebase", s>>
    BY <1>1 DEF Call, At
<1>3. env[s][s] = Provisional(s)
    BY <1>2 DEF HeadInv
<1>4. env \in [Service -> [Service -> Url]]
    BY DEF TypeOK
<1>5. CASE env' = [env EXCEPT ![s][s] = url[s]]
    BY <1>1, <1>4, <1>5
<1>6. CASE env' = env /\ url[s] = Provisional(s)
    BY <1>1, <1>3, <1>6
<1> QED  BY <1>1, <1>5, <1>6

\* A service is rebased right after it was applied, and saved right after that.
LEMMA StepHeadInv == TypeInv /\ AddressInv /\ HeadInv /\ [Next]_vars => HeadInv'
<1> SUFFICES ASSUME TypeInv, AddressInv, HeadInv, [Next]_vars PROVE HeadInv'
    OBVIOUS
<1>types. TypeOK /\ plan \in Seq(Step) /\ Shape(plan)
    BY DEF TypeInv, TypeOK
<1>other. ASSUME NEW op, NEW x, Call(op, x), op \notin {"apply", "rebase"} PROVE HeadInv'
    BY <1>other, NextHead DEF HeadInv
<1>1. CASE BeginGoLive \/ BeginCommand \/ BeginTeardown
    <2>1. Fresh(plan')
        BY <1>1, BeginEffect
    <2> QED  BY <2>1 DEF Fresh, HeadInv
<1>2. CASE EnsureRole
    <2>1. /\ plan # <<>> /\ Head(plan) = <<"role", "aws">>
          /\ plan' = Tail(plan) \/ plan' = Tail(Tail(plan))
        BY <1>2 DEF EnsureRole, At
    <2>2. /\ Tail(plan) \in Seq(Step) /\ Shape(Tail(plan))
          /\ Tail(plan) # <<>> /\ Head(Tail(plan)) = <<"policy", "aws">>
        BY <2>1, <1>types, TailKeeps
    <2>3. ASSUME NEW s \in Service, Tail(Tail(plan)) # <<>>
          PROVE  Head(Tail(Tail(plan))) \notin {<<"rebase", s>>, <<"save", s>>}
        <3>1. /\ Head(Tail(Tail(plan))) = <<"rebase", s>> => Head(Tail(plan)) = <<"apply", s>>
              /\ Head(Tail(Tail(plan))) = <<"save", s>> => Head(Tail(plan)) = <<"rebase", s>>
            BY <2>2, <2>3, TailKeeps
        <3>2. <<"policy", "aws">> # <<"apply", s>> /\ <<"policy", "aws">> # <<"rebase", s>>
            OBVIOUS
        <3> QED  BY <2>2, <3>1, <3>2
    <2>4. ASSUME NEW s \in Service, plan' # <<>>
          PROVE  Head(plan') # <<"rebase", s>> /\ Head(plan') # <<"save", s>>
        <3>1. CASE plan' = Tail(plan)
            <4>1. <<"policy", "aws">> # <<"rebase", s>> /\ <<"policy", "aws">> # <<"save", s>>
                OBVIOUS
            <4> QED  BY <2>2, <3>1, <4>1
        <3>2. CASE plan' = Tail(Tail(plan))
            BY <2>3, <2>4, <3>2
        <3> QED  BY <2>1, <3>1, <3>2
    <2> QED  BY <2>4 DEF HeadInv
<1>3. CASE AttachPolicy
    BY <1>3, <1>other DEF AttachPolicy
<1>4. CASE EnsureImages
    BY <1>4, <1>other DEF EnsureImages
<1>5. CASE EnsureGroup \/ EnsureResources
    BY <1>5, <1>other DEF EnsureGroup, EnsureResources
<1>6. ASSUME NEW c \in Cloud, SaveProvisioned(c) PROVE HeadInv'
    BY <1>6, <1>other DEF SaveProvisioned
<1>7. ASSUME NEW c \in Cloud, Delete(c) PROVE HeadInv'
    BY <1>7, <1>other, <1>types, DeleteEffect
<1>8. ASSUME NEW s \in Service, Create(s) \/ Update(s) PROVE HeadInv'
    <2>1. env'[s][s] = Provisional(s) /\ UNCHANGED recorded /\ Call("apply", s)
        BY <1>8, <1>types, ApplyEffect
    <2>2. Provisional(s)' = Provisional(s)
        BY <2>1 DEF Provisional
    <2> QED  BY <2>1, <2>2, NextHead DEF HeadInv
<1>9. ASSUME NEW s \in Service, Rebase(s) PROVE HeadInv'
    <2>1. env'[s][s] = url[s] /\ UNCHANGED url /\ Call("rebase", s)
        BY <1>9, <1>types, RebaseEffect
    <2> QED  BY <2>1, NextHead DEF HeadInv
<1>10. ASSUME NEW s \in Service, SaveDeployed(s) PROVE HeadInv'
    BY <1>10, <1>other DEF SaveDeployed
<1>11. CASE LinkRisk \/ Finish
    BY <1>11, <1>other DEF LinkRisk, Finish
<1>12. CASE Exit \/ Stop \/ StopInSave
    BY <1>12 DEF Exit, Stop, StopInSave, HeadInv
<1>13. CASE GroupGone
    <2>1. /\ UNCHANGED <<plan, env, recorded>>
          /\ \A s \in AwsService : url'[s] = url[s]
        BY <1>13, <1>types DEF GroupGone, files, TypeOK, AwsService
    <2>2. \A s : Provisional(s)' = Provisional(s)
        BY <2>1 DEF Provisional
    <2> QED  BY <2>1, <2>2 DEF HeadInv
<1>14. CASE UNCHANGED vars
    BY <1>14 DEF vars, cloud, files, HeadInv, Provisional
<1> QED
    BY <1>1, <1>2, <1>3, <1>4, <1>5, <1>6, <1>7, <1>8, <1>9, <1>10, <1>11, <1>12,
       <1>13, <1>14 DEF Next, Progress, DeployStep

\* No step records an AWS address that the service was not given, or changes
\* the address it was given to another.
LEMMA StepConfigured ==
    TypeInv /\ AddressInv /\ HeadInv /\ AwsRecordedWhenConfigured /\ [Next]_vars
        => AwsRecordedWhenConfigured'
<1> SUFFICES ASSUME TypeInv, AddressInv, HeadInv, AwsRecordedWhenConfigured, [Next]_vars
             PROVE  AwsRecordedWhenConfigured'
    OBVIOUS
<1>types. TypeOK
    BY DEF TypeInv
<1>aws. AwsService \subseteq Service
    BY DEF Service
<1>still. ASSUME UNCHANGED <<app, url, env, recorded>> PROVE AwsRecordedWhenConfigured'
    BY <1>still DEF AwsRecordedWhenConfigured
<1>forgets. ASSUME \A s \in AwsService : recorded'[s] = recorded[s] \/ recorded'[s] = NoUrl,
                   \A s \in AwsService : app'[s] # "absent" => app'[s] = app[s]
                                                               /\ url'[s] = url[s],
                   UNCHANGED env
            PROVE  AwsRecordedWhenConfigured'
    <2>1. ASSUME NEW s \in AwsService, app'[s] # "absent", recorded'[s] = url'[s]
          PROVE  env'[s][s] = url'[s]
        <3>1. /\ app[s] # "absent" /\ url'[s] = url[s] /\ env' = env
              /\ recorded'[s] = recorded[s] \/ recorded'[s] = NoUrl
            BY <2>1, <1>forgets
        <3>2. recorded'[s] # NoUrl
            BY <2>1, <3>1, <1>aws DEF AddressInv
        <3> QED  BY <2>1, <3>1, <3>2 DEF AwsRecordedWhenConfigured
    <2> QED  BY <2>1 DEF AwsRecordedWhenConfigured
<1>1. CASE BeginGoLive \/ BeginCommand \/ BeginTeardown
    BY <1>1, BeginEffect, <1>still DEF cloud, files
<1>2. CASE EnsureRole \/ AttachPolicy \/ EnsureImages \/ EnsureGroup \/ EnsureResources
    BY <1>2, <1>still DEF EnsureRole, AttachPolicy, EnsureImages, EnsureGroup,
                          EnsureResources, files
<1>3. ASSUME NEW c \in Cloud, SaveProvisioned(c) PROVE AwsRecordedWhenConfigured'
    <2>1. PICK op \in {"keep", "replace"} :
              SaveManifest(c, IF c # "aws" THEN url
                              ELSE IF op = "keep" THEN recorded ELSE Unknown)
        BY <1>3 DEF SaveProvisioned
    <2>2. \A s \in Service : recorded'[s] = IF CloudOf(s) = c
              THEN (IF c # "aws" THEN url ELSE IF op = "keep" THEN recorded ELSE Unknown)[s]
              ELSE recorded[s]
        BY <2>1, <1>types, SaveEffect
    <2>3. \A s \in AwsService : recorded'[s] \in {recorded[s], NoUrl}
        BY <2>2, <1>aws, CloudOfType DEF AwsService, Unknown
    <2>4. UNCHANGED <<app, url, env>>
        BY <1>3 DEF SaveProvisioned, cloud
    <2> QED  BY <2>3, <2>4, <1>forgets
<1>4. ASSUME NEW c \in Cloud, Delete(c) PROVE AwsRecordedWhenConfigured'
    BY <1>4, <1>types, <1>aws, DeleteEffect, <1>forgets
<1>5. ASSUME NEW s \in Service, Create(s) PROVE AwsRecordedWhenConfigured'
    <2>1. /\ url' = [url EXCEPT ![s] = <<s, created[s] + 1>>] /\ UNCHANGED recorded
          /\ \A r \in Service \ {s} : app'[r] = app[r]
        BY <1>5, <1>types DEF Create, files, TypeOK
    <2>2. /\ url'[s] = <<s, created[s] + 1>>
          /\ \A r \in Service \ {s} : url'[r] = url[r]
        BY <2>1, <1>types DEF TypeOK
    <2>3. \A r \in Service \ {s} : env'[r] = env[r]
        BY <1>5, <1>types, ApplyEffect
    <2>4. recorded[s] # url'[s]
        <3>1. created[s] \in Nat
            BY <1>types DEF TypeOK
        <3>2. recorded[s] = NoUrl \/ \E n \in 1..created[s] : recorded[s] = <<s, n>>
            BY DEF AddressInv, IsGiven
        <3>3. \A n \in 1..created[s] : <<s, n>> # <<s, created[s] + 1>>
            BY <3>1
        <3>4. NoUrl # <<s, created[s] + 1>>
            BY <3>1 DEF NoUrl
        <3> QED  BY <2>2, <3>2, <3>3, <3>4
    <2> QED  BY <2>1, <2>2, <2>3, <2>4, <1>aws DEF AwsRecordedWhenConfigured
<1>6. ASSUME NEW s \in Service, Update(s) PROVE AwsRecordedWhenConfigured'
    <2>1. /\ env'[s][s] = Provisional(s) /\ UNCHANGED <<app, url, recorded>>
          /\ \A r \in Service \ {s} : env'[r] = env[r]
        BY <1>6, <1>types, ApplyEffect DEF Update
    <2>2. app[s] # "absent" /\ recorded[s] = url[s] => Provisional(s) = url[s]
        BY DEF AddressInv, Provisional
    <2> QED  BY <2>1, <2>2, <1>aws DEF AwsRecordedWhenConfigured
<1>7. ASSUME NEW s \in Service, Rebase(s) PROVE AwsRecordedWhenConfigured'
    BY <1>7, <1>types, <1>aws, RebaseEffect DEF AwsRecordedWhenConfigured
<1>8. ASSUME NEW s \in Service, SaveDeployed(s) PROVE AwsRecordedWhenConfigured'
    <2>1. /\ recorded'[s] = url[s] /\ \A r \in Service \ {s} : recorded'[r] = recorded[r]
          /\ UNCHANGED <<app, url, env>> /\ Call("save", s)
        BY <1>8, <1>types, SavedEffect
    <2>2. s \in AwsService => env[s][s] = url[s]
        BY <2>1 DEF HeadInv, Call, At
    <2> QED  BY <2>1, <2>2, <1>aws DEF AwsRecordedWhenConfigured
<1>9. CASE LinkRisk
    <2>1. UNCHANGED <<app, url, recorded>> /\ \A s \in AwsService : env'[s] = env[s]
        BY <1>9, <1>types DEF LinkRisk, files, AwsService, Service, TypeOK
    <2> QED  BY <2>1 DEF AwsRecordedWhenConfigured
<1>10. CASE Finish \/ Exit \/ Stop
    BY <1>10, <1>still DEF Finish, Exit, Stop, cloud, files
<1>11. CASE GroupGone
    <2>1. /\ \A s \in AwsService : app'[s] = app[s] /\ url'[s] = url[s]
          /\ UNCHANGED <<env, recorded>>
        BY <1>11, <1>types DEF GroupGone, files, TypeOK, AwsService, Service
    <2> QED  BY <2>1 DEF AwsRecordedWhenConfigured
<1>12. CASE StopInSave
    <2>1. /\ \A s \in Service : recorded'[s] \in {recorded[s], NoUrl}
          /\ UNCHANGED <<app, url, env>>
        BY <1>12 DEF StopInSave, cloud
    <2> QED  BY <2>1, <1>aws, <1>forgets
<1>13. CASE UNCHANGED vars
    BY <1>13, <1>still DEF vars, cloud, files
<1> QED
    BY <1>1, <1>2, <1>3, <1>4, <1>5, <1>6, <1>7, <1>8, <1>9, <1>10, <1>11, <1>12,
       <1>13 DEF Next, Progress, DeployStep

\* Whatever stops and is torn down in between: an AWS address that is recorded
\* and in use is the one under which the service was told to register.
THEOREM AwsIsConfigured == Spec => []AwsRecordedWhenConfigured
<1>1. Init => AddressInv /\ HeadInv /\ AwsRecordedWhenConfigured
    BY DEF Init, Unknown, AddressInv, HeadInv, AwsRecordedWhenConfigured, Service
<1> QED  BY <1>1, InitTypeInv, StepTypeInv, StepAddressInv, StepHeadInv, StepConfigured,
            PTL DEF Spec

-----------------------------------------------------------------------------
(* What a bootstrap has done when it comes to its call j.                  *)

\* Where each service is deployed first, and where it gets the last word on the
\* address of another.
First(s) == IF s = "registry" THEN 1
            ELSE IF s = "ingestion" THEN 4
            ELSE IF s = "risk" THEN 7 ELSE 10

Told(s, r) == IF s = "ingestion" THEN 14
              ELSE IF s = "risk" /\ r = "anomaly" THEN 13 ELSE First(s)

\* A service is known to run once it was rebased, and to be recorded once it was
\* saved; what it is told by then is what is so.
Facts(j) ==
    \A s \in Service :
        /\ j > First(s) + 1 => app[s] = "running" /\ env[s][s] = url[s]
        /\ j > First(s) + 2 => /\ manifest[CloudOf(s)] = "saved"
                               /\ recorded[s] = url[s] /\ known[s] = url[s]
        /\ \A r \in Refs(s) : j > Told(s, r) => env[s][r] = url[r]
        /\ s = "anomaly" /\ j > First(s) => group = "ready"

\* A bootstrap that is done has all 17 calls behind it; before that it is on its
\* way, and other commands have no last call.
BootInv ==
    /\ live # "no" => plan = <<>> /\ Facts(18)
    /\ live = "seeded" => portfolio
    /\ \/ NoFinish(plan)
       \/ \E replace \in BOOLEAN, k \in 1..9 : plan = SubSeq(GoLive(replace), k, 26)
       \/ \E j \in 1..17 : plan = SubSeq(BootstrapHosts, j, 17) /\ Facts(j)

\* A service that is told an address was not the last to be deployed.
LEMMA Order ==
    \A s \in Service :
        /\ First(s) \in 1..10
        /\ \A r \in Refs(s) : /\ r \in Service /\ r # s
                              /\ Told(s, r) \in 1..14 /\ Told(s, r) > First(r) + 2
<1>1. /\ Refs("registry") = {} /\ Refs("ingestion") = {"registry", "risk", "anomaly"}
      /\ Refs("risk") = {"registry", "ingestion", "anomaly"}
      /\ Refs("anomaly") = {"registry", "ingestion", "risk"}
    BY DEF Refs
<1> QED  BY <1>1 DEF First, Told, Service, AwsService

\* Which call is at the places that matter.
LEMMA Milestones ==
    ASSUME NEW j \in 1..17, NEW op, NEW s, BootstrapHosts[j] = <<op, s>>, NEW t \in Service
    PROVE  /\ j = First(t)     => op = "apply" /\ s = t
           /\ j = First(t) + 1 => op = "rebase" /\ s = t
           /\ j = First(t) + 2 => op = "save" /\ s = t
           /\ \A r \in Refs(t) : j = Told(t, r) =>
                  IF t = "risk" /\ r = "anomaly" THEN op = "link" ELSE op = "apply" /\ s = t
           /\ op = "apply" /\ s = t => j = First(t) \/ j > First(t) + 2
           /\ op = "link" /\ s = "risk" => j = 13
           /\ op = "finish" /\ s = "risk" => j = 17
           /\ j = 17 => op = "finish" /\ s = "risk"
<1> DEFINE b == BootstrapHosts
<1>1. /\ b[1]  = <<"apply", "registry">>   /\ b[2]  = <<"rebase", "registry">>
      /\ b[3]  = <<"save", "registry">>
      /\ b[4]  = <<"apply", "ingestion">>  /\ b[5]  = <<"rebase", "ingestion">>
      /\ b[6]  = <<"save", "ingestion">>
      /\ b[7]  = <<"apply", "risk">>       /\ b[8]  = <<"rebase", "risk">>
      /\ b[9]  = <<"save", "risk">>
      /\ b[10] = <<"apply", "anomaly">>    /\ b[11] = <<"rebase", "anomaly">>
      /\ b[12] = <<"save", "anomaly">>
      /\ b[13] = <<"link", "risk">>
      /\ b[14] = <<"apply", "ingestion">>
      /\ b[17] = <<"finish", "risk">>
    BY BootstrapCalls
<1>2. t \in {"registry", "ingestion", "risk", "anomaly"}
    BY DEF Service, AwsService
<1>3. b[j] = <<op, s>>
    OBVIOUS
<1>4. /\ op = "apply" /\ s = t => \/ t = "registry" /\ j = 1
                                  \/ t = "ingestion" /\ j \in {4, 14}
                                  \/ t = "risk" /\ j = 7
                                  \/ t = "anomaly" /\ j = 10
      /\ op = "link" /\ s = "risk" => j = 13
      /\ op = "finish" /\ s = "risk" => j = 17
    BY Places
<1> HIDE DEF b
<1>5. ASSUME NEW i \in 1..17, NEW o, NEW u, b[i] = <<o, u>>, j = i PROVE op = o /\ s = u
    BY <1>3, <1>5
<1>6. j = First(t) => op = "apply" /\ s = t
    BY <1>1, <1>2, <1>5 DEF First
<1>7. j = First(t) + 1 => op = "rebase" /\ s = t
    BY <1>1, <1>2, <1>5 DEF First
<1>8. j = First(t) + 2 => op = "save" /\ s = t
    BY <1>1, <1>2, <1>5 DEF First
<1>9. ASSUME NEW r \in Refs(t), j = Told(t, r)
      PROVE  IF t = "risk" /\ r = "anomaly" THEN op = "link" ELSE op = "apply" /\ s = t
    BY <1>1, <1>2, <1>5, <1>6, <1>9 DEF Told
<1>10. op = "apply" /\ s = t => j = First(t) \/ j > First(t) + 2
    BY <1>4 DEF First
<1>11. j = 17 => op = "finish" /\ s = "risk"
    BY <1>1, <1>5
<1> QED  BY <1>4, <1>6, <1>7, <1>8, <1>9, <1>10, <1>11

\* After a service was applied, ...
LEMMA ApplyFacts ==
    ASSUME TypeOK, AddressInv, NEW j \in 1..17, Facts(j), NEW s \in Service,
           BootstrapHosts[j] = <<"apply", s>>, Create(s) \/ Update(s)
    PROVE  Facts(j + 1)'
<1>1. /\ env'[s][s] = Provisional(s)
      /\ \A r \in Service \ {s} : env'[r] = env[r]
      /\ UNCHANGED <<manifest, recorded, group, known>>
    BY ApplyEffect
<1>2. \A r \in Refs(s) : env'[s][r] = known[r]
    <2>1. env'[s] = Settings(s, Provisional(s))
        BY ApplyEffect
    <2> QED  BY <2>1, Order DEF Settings
<1>3. \A r \in Service \ {s} : app'[r] = app[r] /\ url'[r] = url[r]
    BY DEF Create, Update, TypeOK
<1>4. app[s] = "running" => UNCHANGED <<app, url>>
    BY DEF Create, Update
<1>5. s = "anomaly" => group = "ready"
    BY DEF Create, Update, CanBuild
<1>6. j = First(s) \/ j > First(s) + 2
    BY Milestones
<1>7. j > First(s) + 2 => /\ env'[s][s] = url[s] /\ UNCHANGED <<app, url>>
                          /\ app[s] = "running"
    <2>1. First(s) \in 1..10
        BY Order
    <2>2. j > First(s) + 2 => app[s] = "running" /\ recorded[s] = url[s]
        BY <2>1 DEF Facts
    <2>3. app[s] = "running" => url[s] # NoUrl
        BY DEF AddressInv
    <2> QED  BY <1>1, <1>4, <2>2, <2>3 DEF Provisional
<1>8. ASSUME NEW t \in Service, j + 1 > First(t) + 1
      PROVE  app'[t] = "running" /\ env'[t][t] = url'[t]
    <2>1. j > First(t) + 1
        BY <1>8, Milestones, Order
    <2>2. app[t] = "running" /\ env[t][t] = url[t]
        BY <2>1 DEF Facts
    <2>3. CASE t = s
        <3>1. j > First(s) + 2
            BY <2>1, <2>3, <1>6, Order
        <3> QED  BY <2>3, <3>1, <1>7
    <2> QED  BY <2>2, <2>3, <1>1, <1>3
<1>9. ASSUME NEW t \in Service, j + 1 > First(t) + 2
      PROVE  /\ manifest'[CloudOf(t)] = "saved"
             /\ recorded'[t] = url'[t] /\ known'[t] = url'[t]
    <2>1. j > First(t) + 2
        BY <1>9, Milestones, Order
    <2>2. manifest[CloudOf(t)] = "saved" /\ recorded[t] = url[t] /\ known[t] = url[t]
        BY <2>1 DEF Facts
    <2>3. url'[t] = url[t]
        BY <2>1, <1>3, <1>7
    <2> QED  BY <2>2, <2>3, <1>1
<1>10. ASSUME NEW t \in Service, NEW r \in Refs(t), j + 1 > Told(t, r)
       PROVE  env'[t][r] = url'[r]
    <2>1. /\ r \in Service /\ r # t /\ Told(t, r) \in 1..14
          /\ Told(t, r) > First(r) + 2 /\ First(r) \in 1..10
        BY Order
    <2>2. j > First(r) + 2
        BY <2>1, <1>10
    <2>3. known[r] = url[r]
        BY <2>1, <2>2 DEF Facts
    <2>4. url'[r] = url[r]
        BY <2>1, <2>2, <1>3, <1>7
    <2>5. CASE t = s
        BY <2>3, <2>4, <2>5, <1>2
    <2>6. CASE t # s
        <3>1. j # Told(t, r)
            BY <2>6, Milestones
        <3>2. env[t][r] = url[r]
            BY <3>1, <2>1, <1>10 DEF Facts
        <3> QED  BY <3>2, <2>4, <2>6, <1>1
    <2> QED  BY <2>5, <2>6
<1>11. ASSUME NEW t \in Service, t = "anomaly", j + 1 > First(t) PROVE group' = "ready"
    <2>1. j > First(t) \/ s = t
        BY <1>11, Milestones, Order
    <2>2. j > First(t) => group = "ready"
        BY <1>11 DEF Facts
    <2> QED  BY <2>1, <2>2, <1>1, <1>5, <1>11
<1> QED  BY <1>8, <1>9, <1>10, <1>11 DEF Facts

\* ... was rebased, ...
LEMMA RebaseFacts ==
    ASSUME TypeOK, AddressInv, HeadInv, NEW j \in 1..17, Facts(j), NEW s \in Service,
           BootstrapHosts[j] = <<"rebase", s>>, Rebase(s)
    PROVE  Facts(j + 1)'
<1>1. /\ env'[s][s] = url[s] /\ app[s] = "running"
      /\ \A r \in Service \ {s} : env'[s][r] = env[s][r]
      /\ \A r \in Service \ {s} : env'[r] = env[r]
      /\ UNCHANGED <<app, url, group, manifest, recorded, known>>
    BY RebaseEffect
<1>2. ASSUME NEW t \in Service
      PROVE  /\ j + 1 > First(t) + 1 => s = t \/ j > First(t) + 1
             /\ j + 1 > First(t) + 2 => j > First(t) + 2
             /\ j + 1 > First(t) => j > First(t)
             /\ \A r \in Refs(t) : /\ j + 1 > Told(t, r) => j > Told(t, r)
                                   /\ r \in Service /\ r # t
    BY Milestones, Order
<1>3. ASSUME NEW t \in Service, NEW r \in Refs(t) PROVE env'[t][r] = env[t][r]
    BY <1>1, <1>2
<1> QED  BY <1>1, <1>2, <1>3 DEF Facts

\* ... was saved, ...
LEMMA SavedFacts ==
    ASSUME TypeOK, NEW j \in 1..17, Facts(j), NEW s \in Service,
           BootstrapHosts[j] = <<"save", s>>, SaveDeployed(s)
    PROVE  Facts(j + 1)'
<1>1. /\ manifest' = [manifest EXCEPT ![CloudOf(s)] = "saved"]
      /\ manifest'[CloudOf(s)] = "saved"
      /\ recorded'[s] = url[s] /\ known'[s] = url[s]
      /\ \A r \in Service \ {s} : recorded'[r] = recorded[r] /\ known'[r] = known[r]
      /\ UNCHANGED <<app, url, env, group>>
    BY SavedEffect
<1>2. \A r \in Service : manifest[CloudOf(r)] = "saved" => manifest'[CloudOf(r)] = "saved"
    BY <1>1, CloudOfType DEF TypeOK
<1>3. ASSUME NEW t \in Service
      PROVE  /\ j + 1 > First(t) + 1 => j > First(t) + 1
             /\ j + 1 > First(t) + 2 => s = t \/ j > First(t) + 2
             /\ j + 1 > First(t) => j > First(t)
             /\ \A r \in Refs(t) : j + 1 > Told(t, r) => j > Told(t, r)
    BY Milestones, Order
<1>4. ASSUME NEW t \in Service, j + 1 > First(t) + 2
      PROVE  /\ manifest'[CloudOf(t)] = "saved"
             /\ recorded'[t] = url[t] /\ known'[t] = url[t]
    <2>1. CASE s = t
        BY <2>1, <1>1
    <2>2. CASE s # t
        <3>1. manifest[CloudOf(t)] = "saved" /\ recorded[t] = url[t] /\ known[t] = url[t]
            BY <2>2, <1>3, <1>4 DEF Facts
        <3> QED  BY <3>1, <2>2, <1>1, <1>2
    <2> QED  BY <2>1, <2>2
<1> QED  BY <1>1, <1>3, <1>4 DEF Facts

\* ... was told the address of the anomaly service, ...
LEMMA LinkFacts ==
    ASSUME TypeOK, NEW j \in 1..17, Facts(j),
           BootstrapHosts[j] = <<"link", "risk">>, LinkRisk
    PROVE  Facts(j + 1)'
<1>1. /\ env' = [env EXCEPT !["risk"]["anomaly"] = known["anomaly"]]
      /\ UNCHANGED <<app, url, group, manifest, recorded, known>>
    BY DEF LinkRisk, files
<1>services. "risk" \in Service /\ "anomaly" \in Service
    BY DEF Service
<1>2. /\ env'["risk"]["anomaly"] = known["anomaly"]
      /\ \A t \in Service, r \in Service :
             ~ (t = "risk" /\ r = "anomaly") => env'[t][r] = env[t][r]
    BY <1>1, <1>services DEF TypeOK
<1>3. known["anomaly"] = url["anomaly"]
    <2>1. j = 13
        BY <1>services, Milestones
    <2> QED  BY <2>1, <1>services DEF Facts, First
<1>4. ASSUME NEW t \in Service
      PROVE  /\ j + 1 > First(t) + 1 => j > First(t) + 1
             /\ j + 1 > First(t) + 2 => j > First(t) + 2
             /\ j + 1 > First(t) => j > First(t)
             /\ \A r \in Refs(t) : /\ j + 1 > Told(t, r)
                                          => (t = "risk" /\ r = "anomaly") \/ j > Told(t, r)
                                   /\ r \in Service
    BY Milestones, Order
<1>5. ASSUME NEW t \in Service, NEW r \in Refs(t), j + 1 > Told(t, r)
      PROVE  env'[t][r] = url[r]
    <2>1. CASE t = "risk" /\ r = "anomaly"
        BY <2>1, <1>2, <1>3
    <2>2. CASE ~ (t = "risk" /\ r = "anomaly")
        <3>1. env[t][r] = url[r] /\ r \in Service
            BY <2>2, <1>4, <1>5 DEF Facts
        <3> QED  BY <3>1, <2>2, <1>2
    <2> QED  BY <2>1, <2>2
<1>6. ASSUME NEW t \in Service, j + 1 > First(t) + 1
      PROVE  app[t] = "running" /\ env'[t][t] = url[t]
    <2>1. app[t] = "running" /\ env[t][t] = url[t]
        BY <1>4, <1>6 DEF Facts
    <2> QED  BY <2>1, <1>2
<1>7. ASSUME NEW t \in Service
      PROVE  /\ j + 1 > First(t) + 2 => /\ manifest[CloudOf(t)] = "saved"
                                        /\ recorded[t] = url[t] /\ known[t] = url[t]
             /\ t = "anomaly" /\ j + 1 > First(t) => group = "ready"
    BY <1>4 DEF Facts
<1> QED  BY <1>1, <1>5, <1>6, <1>7 DEF Facts

\* ... what holds before the last call holds after it.
LEMMA FinishFacts ==
    ASSUME NEW j \in 1..17, Facts(j), BootstrapHosts[j] = <<"finish", "risk">>, Finish
    PROVE  Facts(18)'
<1>1. j = 17
    <2>1. "risk" \in Service
        BY DEF Service
    <2> QED  BY <2>1, Milestones
<1>2. UNCHANGED <<app, url, env, group, manifest, recorded, known>>
    BY DEF Finish, files
<1>3. ASSUME NEW t \in Service
      PROVE  /\ 17 > First(t) + 2 /\ 17 > First(t) + 1 /\ 17 > First(t)
             /\ \A r \in Refs(t) : 17 > Told(t, r)
    BY Order
<1> QED  BY <1>1, <1>2, <1>3 DEF Facts

\* A bootstrap that has its first call to make has done nothing yet.
LEMMA NothingYet == Facts(1) /\ Facts(1)'
<1>1. ASSUME NEW t \in Service
      PROVE  /\ ~(1 > First(t) + 2) /\ ~(1 > First(t) + 1) /\ ~(1 > First(t))
             /\ \A r \in Refs(t) : ~(1 > Told(t, r))
    BY Order
<1> QED  BY <1>1 DEF Facts

\* The places of the calls that are left.
LEMMA Rests ==
    /\ \A j \in 1..17 : LET p == SubSeq(BootstrapHosts, j, 17) IN
           /\ p # <<>> /\ Head(p) = BootstrapHosts[j]
           /\ Tail(p) = SubSeq(BootstrapHosts, j + 1, 17)
           /\ j = 17 => Tail(p) = <<>>
    /\ \A replace \in BOOLEAN, k \in 1..9 : LET p == SubSeq(GoLive(replace), k, 26) IN
           /\ p # <<>> /\ Head(p) = GoLive(replace)[k]
           /\ Tail(p) = SubSeq(GoLive(replace), k + 1, 26)
    /\ SubSeq(BootstrapHosts, 1, 17) = BootstrapHosts
    /\ \A replace \in BOOLEAN :
           /\ SubSeq(GoLive(replace), 10, 26) = BootstrapHosts
           /\ SubSeq(GoLive(replace), 1, 26) = GoLive(replace)
<1>1. BootstrapHosts \in Seq(Step) /\ Len(BootstrapHosts) = 17
    BY BootstrapCalls
<1>2. \A replace \in BOOLEAN : GoLive(replace) \in Seq(Step) /\ Len(GoLive(replace)) = 26
    BY GoLiveCalls
<1>3. ASSUME NEW list \in Seq(Step) PROVE SubSeq(list, 1, Len(list)) = list
    BY SubSeqFull
<1>4. ASSUME NEW j \in 1..17
      PROVE  LET p == SubSeq(BootstrapHosts, j, 17) IN
             /\ p # <<>> /\ Head(p) = BootstrapHosts[j]
             /\ Tail(p) = SubSeq(BootstrapHosts, j + 1, 17)
             /\ j = 17 => Tail(p) = <<>>
    BY <1>1, HeadOfRest
<1>5. ASSUME NEW replace \in BOOLEAN, NEW k \in 1..9
      PROVE  LET p == SubSeq(GoLive(replace), k, 26) IN
             /\ p # <<>> /\ Head(p) = GoLive(replace)[k]
             /\ Tail(p) = SubSeq(GoLive(replace), k + 1, 26)
    <2> DEFINE g == GoLive(replace)
    <2>1. k \in 1..26 /\ g \in Seq(Step) /\ Len(g) = 26
        BY <1>2
    <2> HIDE DEF g
    <2>2. LET p == SubSeq(g, k, Len(g)) IN
          p # <<>> /\ Head(p) = g[k] /\ Tail(p) = SubSeq(g, k + 1, Len(g))
        BY <2>1, HeadOfRest
    <2>3. SubSeq(g, k, 26) # <<>> /\ Head(SubSeq(g, k, 26)) = g[k]
          /\ Tail(SubSeq(g, k, 26)) = SubSeq(g, k + 1, 26)
        BY <2>1, <2>2
    <2> QED  BY <2>3 DEF g
<1>6. SubSeq(BootstrapHosts, 1, 17) = BootstrapHosts
    BY <1>1, <1>3
<1>7. ASSUME NEW replace \in BOOLEAN
      PROVE  /\ SubSeq(GoLive(replace), 10, 26) = BootstrapHosts
             /\ SubSeq(GoLive(replace), 1, 26) = GoLive(replace)
    BY <1>2, <1>3, GoLiveCalls
<1> QED  BY <1>4, <1>5, <1>6, <1>7

\* How a bootstrap comes along: what it still has to make is what is not about
\* to finish, or it is at a call that counts.
OnItsWay(p) ==
    \/ NoFinish(p)
    \/ \E replace \in BOOLEAN, k \in 1..9 : p = SubSeq(GoLive(replace), k, 26)
    \/ p = BootstrapHosts

\* What a call leaves.
LEMMA CallMoves ==
    ASSUME TypeInv, BootInv, NEW op, NEW x, Call(op, x)
    PROVE  /\ live = "no"
           /\ \/ OnItsWay(plan') /\ op # "finish"
              \/ \E j \in 1..17 : /\ Facts(j) /\ BootstrapHosts[j] = <<op, x>>
                                  /\ plan' = SubSeq(BootstrapHosts, j + 1, 17)
                                  /\ j = 17 => plan' = <<>>
<1>1. /\ plan \in Seq(Step) /\ Shape(plan) /\ plan # <<>> /\ plan' = Tail(plan)
      /\ Head(plan) = <<op, x>>
    BY DEF TypeInv, TypeOK, Call, At
<1>2. live = "no"
    BY <1>1 DEF BootInv
<1>3. CASE NoFinish(plan)
    <2>1. NoFinish(plan') /\ Head(plan) = plan[1]
        BY <1>1, <1>3, TailKeeps
    <2>2. 1 \in DOMAIN plan
        BY <1>1, LenProperties, EmptySeq
    <2>3. plan[1][1] # "finish" /\ plan[1] = <<op, x>>
        BY <1>1, <1>3, <2>1, <2>2 DEF NoFinish
    <2>4. op # "finish"
        BY <2>3
    <2> QED  BY <1>2, <2>1, <2>4 DEF OnItsWay
<1>4. ASSUME NEW replace \in BOOLEAN, NEW k \in 1..9, plan = SubSeq(GoLive(replace), k, 26)
      PROVE  OnItsWay(plan') /\ op # "finish"
    <2>1. plan' = SubSeq(GoLive(replace), k + 1, 26) /\ GoLive(replace)[k] = <<op, x>>
        BY <1>1, <1>4, Rests
    <2>2. op # "finish"
        <3>1. \/ GoLive(replace)[k][1] \in Setup
              \/ GoLive(replace)[k] \in {<<"role", "aws">>, <<"policy", "aws">>}
            <4>1. k = 1 \/ k = 2 \/ k \in 3..9
                OBVIOUS
            <4> QED  BY <4>1, GoLiveCalls
        <3>2. op \in Setup \/ op \in {"role", "policy"}
            BY <2>1, <3>1
        <3> QED  BY <3>2 DEF Setup
    <2>3. OnItsWay(plan')
        <3>1. CASE k = 9
            <4>1. plan' = SubSeq(GoLive(replace), 10, 26)
                BY <2>1, <3>1
            <4> QED  BY <4>1, Rests DEF OnItsWay
        <3>2. CASE k # 9
            <4>1. k + 1 \in 1..9
                BY <3>2
            <4> QED  BY <2>1, <4>1 DEF OnItsWay
        <3> QED  BY <3>1, <3>2
    <2> QED  BY <2>2, <2>3
<1>5. ASSUME NEW j \in 1..17, plan = SubSeq(BootstrapHosts, j, 17), Facts(j)
      PROVE  /\ Facts(j) /\ BootstrapHosts[j] = <<op, x>>
             /\ plan' = SubSeq(BootstrapHosts, j + 1, 17)
             /\ j = 17 => plan' = <<>>
    BY <1>1, <1>5, Rests
<1> QED  BY <1>2, <1>3, <1>4, <1>5 DEF BootInv

\* What is on its way needs no facts to be so.
LEMMA OnItsWayKeeps ==
    ASSUME live' = "no", OnItsWay(plan)'
    PROVE  BootInv'
<1>1. plan' = BootstrapHosts => plan' = SubSeq(BootstrapHosts, 1, 17)
    BY Rests
<1>2. 1 \in 1..17
    OBVIOUS
<1> QED  BY <1>1, <1>2, NothingYet DEF OnItsWay, BootInv

\* A call that no deployment makes keeps a bootstrap on its way.
LEMMA OtherCalls ==
    ASSUME TypeInv, BootInv, NEW op, NEW x, Call(op, x), UNCHANGED live,
           op \notin {"apply", "rebase", "save", "link", "finish"}
    PROVE  BootInv'
<1>1. ASSUME NEW j \in 1..17, BootstrapHosts[j] = <<op, x>>
      PROVE  FALSE
    <2>1. "risk" \in Service
        BY DEF Service
    <2>2. BootstrapHosts[j][1] \in {"apply", "rebase", "save", "link", "finish"}
        BY <2>1, Places
    <2>3. BootstrapHosts[j][1] = op
        BY <1>1
    <2> QED  BY <2>2, <2>3
<1>2. live' = "no" /\ OnItsWay(plan')
    BY <1>1, CallMoves
<1> QED  BY <1>2, OnItsWayKeeps DEF OnItsWay

\* A call that one makes does, if what it does is enough for the next.
LEMMA DeployCall ==
    ASSUME TypeInv, BootInv, NEW op, NEW s \in Service, Call(op, s), UNCHANGED live,
           op # "finish",
           ASSUME NEW j \in 1..17, Facts(j), BootstrapHosts[j] = <<op, s>>
           PROVE  Facts(j + 1)'
    PROVE  BootInv'
<1>1. live' = "no"
    BY CallMoves
<1>2. CASE OnItsWay(plan')
    BY <1>1, <1>2, OnItsWayKeeps DEF OnItsWay
<1>3. ASSUME NEW j \in 1..17, Facts(j), BootstrapHosts[j] = <<op, s>>,
             plan' = SubSeq(BootstrapHosts, j + 1, 17)
      PROVE  BootInv'
    <2>1. Facts(j + 1)'
        BY <1>3
    <2>2. j # 17
        BY <1>3, Milestones
    <2>3. j + 1 \in 1..17
        BY <2>2
    <2> QED  BY <1>1, <1>3, <2>1, <2>3 DEF BootInv
<1> QED  BY <1>2, <1>3, CallMoves

\* A bootstrap comes to no call without what the calls before it achieved.
LEMMA StepBootInv ==
    TypeInv /\ AddressInv /\ HeadInv /\ BootInv /\ [Next]_vars => BootInv'
<1> SUFFICES ASSUME TypeInv, AddressInv, HeadInv, BootInv, [Next]_vars PROVE BootInv'
    OBVIOUS
<1>types. TypeOK /\ plan \in Seq(Step) /\ Shape(plan)
    BY DEF TypeInv, TypeOK
<1>services. "risk" \in Service
    BY DEF Service
<1>over. ASSUME plan # <<>>, plan' = <<>>, UNCHANGED live PROVE BootInv'
    <2>1. NoFinish(plan')
        <3>1. DOMAIN <<>> = {}
            BY EmptySeq
        <3> QED  BY <1>over, <3>1 DEF NoFinish
    <2>2. live' = "no"
        BY <1>over DEF BootInv
    <2> QED  BY <2>1, <2>2, OnItsWayKeeps DEF OnItsWay
<1>1. CASE BeginGoLive \/ BeginCommand \/ BeginTeardown
    <2>1. /\ live' = "no"
          /\ \/ NoFinish(plan')
             \/ \E replace \in BOOLEAN : plan' = GoLive(replace)
             \/ plan' = BootstrapHosts
        BY <1>1, BeginEffect
    <2>2. ASSUME NEW replace \in BOOLEAN, plan' = GoLive(replace) PROVE OnItsWay(plan')
        <3>1. plan' = SubSeq(GoLive(replace), 1, 26) /\ 1 \in 1..9
            BY <2>2, Rests
        <3> QED  BY <3>1 DEF OnItsWay
    <2>3. OnItsWay(plan')
        BY <2>1, <2>2 DEF OnItsWay
    <2> QED  BY <2>1, <2>3, OnItsWayKeeps DEF OnItsWay
<1>2. CASE EnsureRole
    <2>1. /\ plan # <<>> /\ Head(plan) = <<"role", "aws">> /\ UNCHANGED live
          /\ plan' = Tail(plan) \/ plan' = Tail(Tail(plan))
        BY <1>2 DEF EnsureRole, At
    <2>2. live' = "no"
        BY <2>1 DEF BootInv
    <2>3. CASE NoFinish(plan)
        <3>1. /\ Tail(plan) \in Seq(Step) /\ Shape(Tail(plan)) /\ NoFinish(Tail(plan))
              /\ Tail(plan) # <<>>
            BY <2>1, <2>3, <1>types, TailKeeps
        <3>2. NoFinish(Tail(Tail(plan)))
            BY <3>1, TailKeeps
        <3> QED  BY <2>1, <2>2, <3>1, <3>2, OnItsWayKeeps DEF OnItsWay
    <2>4. ASSUME NEW replace \in BOOLEAN, NEW k \in 1..9, plan = SubSeq(GoLive(replace), k, 26)
          PROVE  OnItsWay(plan')
        <3> DEFINE g == GoLive(replace)
        <3>1. k = 1
            <4>1. g[k] = <<"role", "aws">>
                BY <2>1, <2>4, Rests
            <4>2. g[2] = <<"policy", "aws">> /\ \A i \in 3..9 : g[i][1] \in Setup
                BY GoLiveCalls
            <4> HIDE DEF g
            <4>3. k # 2
                BY <4>1, <4>2
            <4>4. k \notin 3..9
                BY <4>1, <4>2 DEF Setup
            <4> QED  BY <4>3, <4>4
        <3>2. 2 \in 1..9 /\ 3 \in 1..9 /\ 1 + 1 = 2 /\ 2 + 1 = 3
            OBVIOUS
        <3>3. Tail(plan) = SubSeq(g, 2, 26)
            BY <2>4, <3>1, <3>2, Rests
        <3>4. Tail(SubSeq(g, 2, 26)) = SubSeq(g, 3, 26)
            <4>1. Tail(SubSeq(g, 2, 26)) = SubSeq(g, 2 + 1, 26)
                BY <3>2, Rests
            <4> QED  BY <4>1, <3>2
        <3> QED  BY <2>1, <3>2, <3>3, <3>4 DEF OnItsWay
    <2>5. ASSUME NEW j \in 1..17, plan = SubSeq(BootstrapHosts, j, 17) PROVE FALSE
        <3>1. BootstrapHosts[j] = <<"role", "aws">>
            BY <2>1, <2>5, Rests
        <3>2. BootstrapHosts[j][1] \in {"apply", "rebase", "save", "link", "finish"}
            BY <1>services, Places
        <3> QED  BY <3>1, <3>2
    <2>6. NoFinish(plan) \/ OnItsWay(plan')
        BY <2>4, <2>5 DEF BootInv
    <2>7. CASE OnItsWay(plan')
        BY <2>2, <2>7, OnItsWayKeeps DEF OnItsWay
    <2> QED  BY <2>3, <2>6, <2>7
<1>3. CASE AttachPolicy
    <2>1. Call("policy", "aws") /\ UNCHANGED live
        BY <1>3 DEF AttachPolicy
    <2> QED  BY <2>1, OtherCalls
<1>4. CASE EnsureImages
    <2>1. PICK c \in {"aws", "gcp"} : Call("images", c)
        BY <1>4 DEF EnsureImages
    <2>2. UNCHANGED live
        BY <1>4 DEF EnsureImages
    <2> QED  BY <2>1, <2>2, OtherCalls
<1>5. CASE EnsureGroup
    <2>1. Call("group", "azure") /\ UNCHANGED live
        BY <1>5 DEF EnsureGroup
    <2> QED  BY <2>1, OtherCalls
<1>6. CASE EnsureResources
    <2>1. Call("resources", "azure") /\ UNCHANGED live
        BY <1>6 DEF EnsureResources
    <2> QED  BY <2>1, OtherCalls
<1>7. ASSUME NEW c \in Cloud, SaveProvisioned(c) PROVE BootInv'
    <2>1. PICK op \in {"keep", "replace"} : Call(op, c)
        BY <1>7 DEF SaveProvisioned
    <2>2. UNCHANGED live
        BY <1>7 DEF SaveProvisioned
    <2> QED  BY <2>1, <2>2, OtherCalls
<1>8. ASSUME NEW c \in Cloud, Delete(c) PROVE BootInv'
    <2>1. PICK op \in {"delete", "delete, keep storage"} : Call(op, c)
        BY <1>8, <1>types, DeleteEffect
    <2>2. UNCHANGED live
        BY <1>8 DEF Delete
    <2> QED  BY <2>1, <2>2, OtherCalls
<1>9. ASSUME NEW s \in Service, Create(s) \/ Update(s) PROVE BootInv'
    <2>1. Call("apply", s) /\ live' = live
        BY <1>9, <1>types, ApplyEffect
    <2>2. ASSUME NEW j \in 1..17, Facts(j), BootstrapHosts[j] = <<"apply", s>>
          PROVE  Facts(j + 1)'
        BY <1>9, <2>2, <1>types, ApplyFacts
    <2> QED  BY <2>1, <2>2, DeployCall
<1>10. ASSUME NEW s \in Service, Rebase(s) PROVE BootInv'
    <2>1. Call("rebase", s) /\ live' = live
        BY <1>10 DEF Rebase
    <2>2. ASSUME NEW j \in 1..17, Facts(j), BootstrapHosts[j] = <<"rebase", s>>
          PROVE  Facts(j + 1)'
        BY <1>10, <2>2, <1>types, RebaseFacts
    <2> QED  BY <2>1, <2>2, DeployCall
<1>11. ASSUME NEW s \in Service, SaveDeployed(s) PROVE BootInv'
    <2>1. Call("save", s) /\ live' = live
        BY <1>11 DEF SaveDeployed
    <2>2. ASSUME NEW j \in 1..17, Facts(j), BootstrapHosts[j] = <<"save", s>>
          PROVE  Facts(j + 1)'
        BY <1>11, <2>2, <1>types, SavedFacts
    <2> QED  BY <2>1, <2>2, DeployCall
<1>12. CASE LinkRisk
    <2>1. Call("link", "risk") /\ live' = live
        BY <1>12 DEF LinkRisk
    <2>2. ASSUME NEW j \in 1..17, Facts(j), BootstrapHosts[j] = <<"link", "risk">>
          PROVE  Facts(j + 1)'
        BY <1>12, <2>2, <1>types, LinkFacts
    <2> QED  BY <2>1, <2>2, <1>services, DeployCall
<1>13. CASE Finish
    <2>1. Call("finish", "risk") /\ (live' = "seeded" => portfolio') /\ live' # "no"
        BY <1>13 DEF Finish
    <2>2. PICK j \in 1..17 : /\ Facts(j) /\ BootstrapHosts[j] = <<"finish", "risk">>
                             /\ j = 17 => plan' = <<>>
        BY <2>1, CallMoves
    <2>3. Facts(18)'
        BY <1>13, <2>2, FinishFacts
    <2>4. plan' = <<>>
        BY <2>2, <1>services, Milestones
    <2>5. NoFinish(plan')
        <3>1. DOMAIN <<>> = {}
            BY EmptySeq
        <3> QED  BY <2>4, <3>1 DEF NoFinish
    <2> QED  BY <2>1, <2>3, <2>4, <2>5 DEF BootInv
<1>14. CASE Exit \/ Stop \/ StopInSave
    BY <1>14, <1>over DEF Exit, Blocked, Stop, StopInSave
<1>15. CASE GroupGone
    <2>1. /\ group = "deleting"
          /\ UNCHANGED <<env, manifest, recorded, plan, known, live, portfolio>>
          /\ \A s \in Service \ {"anomaly"} : app'[s] = app[s] /\ url'[s] = url[s]
        BY <1>15, <1>types DEF GroupGone, files, TypeOK
    <2>2. ASSUME NEW j \in Nat, Facts(j) PROVE j <= 10
        <3>1. "anomaly" \in Service /\ First("anomaly") = 10
            BY DEF Service, First
        <3> QED  BY <2>1, <2>2, <3>1 DEF Facts
    <2>3. ASSUME NEW j \in 1..17, Facts(j) PROVE Facts(j)'
        <3>1. j <= 10 /\ First("anomaly") = 10
            BY <2>2, <2>3 DEF First
        <3>2. ASSUME NEW s \in Service, NEW r \in Refs(s), j > Told(s, r)
              PROVE  r \in Service /\ r # "anomaly"
            BY <3>1, <3>2, Order
        <3> QED  BY <2>1, <2>3, <3>1, <3>2 DEF Facts
    <2>4. live = "no"
        BY <2>2 DEF BootInv
    <2> QED  BY <2>1, <2>3, <2>4 DEF BootInv
<1>16. CASE UNCHANGED vars
    <2>1. UNCHANGED <<app, url, env, group, manifest, recorded, known, plan, live, portfolio>>
        BY <1>16 DEF vars, cloud, files
    <2>2. \A j : Facts(j)' <=> Facts(j)
        BY <2>1 DEF Facts
    <2> QED  BY <2>1, <2>2 DEF BootInv
<1> QED
    BY <1>1, <1>2, <1>3, <1>4, <1>5, <1>6, <1>7, <1>8, <1>9, <1>10, <1>11, <1>12,
       <1>13, <1>14, <1>15, <1>16 DEF Next, Progress, DeployStep

\* All of these hold in every state.
LEMMA BootReachable == Spec => [](TypeInv /\ AddressInv /\ HeadInv /\ BootInv)
<1>1. Init => AddressInv /\ HeadInv /\ BootInv
    <2> SUFFICES ASSUME Init PROVE AddressInv /\ HeadInv /\ BootInv
        OBVIOUS
    <2>1. AddressInv /\ HeadInv
        BY DEF Init, Unknown, AddressInv, HeadInv, Service
    <2>2. NoFinish(plan)
        <3>1. DOMAIN <<>> = {}
            BY EmptySeq
        <3> QED  BY <3>1 DEF Init, NoFinish
    <2>3. BootInv
        BY <2>2 DEF Init, BootInv
    <2> QED  BY <2>1, <2>3
<1> QED  BY <1>1, InitTypeInv, StepTypeInv, StepAddressInv, StepHeadInv, StepBootInv,
            PTL DEF Spec

\* All of it has happened when it is done.
LEMMA AllDone ==
    ASSUME BootInv, live # "no", NEW s \in Service
    PROVE  /\ app[s] = "running" /\ env[s][s] = url[s]
           /\ manifest[CloudOf(s)] = "saved" /\ recorded[s] = url[s]
           /\ \A r \in Refs(s) : env[s][r] = url[r]
<1>1. Facts(18)
    BY DEF BootInv
<1>2. /\ 18 > First(s) + 1 /\ 18 > First(s) + 2
      /\ \A r \in Refs(s) : 18 > Told(s, r)
    BY Order
<1> QED  BY <1>1, <1>2 DEF Facts

\* However many commands stopped and whatever was torn down in between: after a
\* bootstrap every service knows its own address and those of its peers.
THEOREM BootstrapWires == Spec => []Wired
<1>1. BootInv => Wired
    BY AllDone DEF Wired
<1> QED  BY <1>1, BootReachable, PTL

\* After a bootstrap the manifests name what runs.
THEOREM BootstrapRecords == Spec => []AllRecorded
<1>1. BootInv => AllRecorded
    BY AllDone DEF AllRecorded
<1> QED  BY <1>1, BootReachable, PTL

\* A portfolio that the status claims was seeded is in the revision that runs.
THEOREM SeededStays == Spec => []SeededIsThere
<1>1. BootInv => SeededIsThere
    BY DEF BootInv, SeededIsThere
<1> QED  BY <1>1, BootReachable, PTL

-----------------------------------------------------------------------------
(* A go-live that nobody stops.                                            *)

\* One run of go-live, whatever was left behind, while Azure deletes nothing.
GoLiveRun(replace) ==
    /\ TypeOK /\ group # "deleting"
    /\ plan = GoLive(replace) /\ live = "no"
    /\ [][Progress \/ GroupGone]_vars

\* It is over when it completed, or it ends because it is stuck.
Completes ==
    /\ plan = <<>> => live # "no" \/ Stuck
    /\ Blocked => Stuck

\* What is provisioned when it comes to its call k.
Prepared(k) ==
    /\ k > 3 => "aws" \in images
    /\ k > 8 => "gcp" \in images
    /\ k > 5 => group \in {"bare", "ready"}
    /\ k > 6 => group = "ready"

RunInv(replace) ==
    /\ group \in {"absent", "bare", "ready"}
    /\ plan = <<>> => live # "no" \/ Stuck
    /\ plan # <<>> => \E k \in 1..26 : plan = SubSeq(GoLive(replace), k, 26) /\ Prepared(k)
    /\ \A s \in Service : plan # <<>> /\ Head(plan) = <<"rebase", s>> => app[s] # "absent"

\* Where its calls are.
LEMMA GoLivePlaces ==
    ASSUME NEW replace \in BOOLEAN, NEW k \in 1..26, NEW op, NEW x,
           GoLive(replace)[k] = <<op, x>>
    PROVE  /\ op \in {"role", "policy", "images", "group", "resources", "keep", "replace",
                      "apply", "rebase", "save", "link", "finish"}
           /\ op \in {"images", "role"} => x \in {"aws", "gcp"}
           /\ op = "group" => x = "azure"
           /\ op \in {"apply", "rebase", "save"} => x \in Service
           /\ op = "role" => k = 1
           /\ k = 3 => op = "images" /\ x = "aws"
           /\ k = 5 => op = "group"
           /\ k = 6 => op = "resources"
           /\ op = "resources" => k = 6
           /\ op = "group" => k = 5
           /\ k = 8 => op = "images" /\ x = "gcp"
           /\ op = "images" => k \in {3, 8}
           /\ op = "apply" => k > 9
           /\ op = "finish" => k = 26
           /\ k = 26 => op = "finish"
<1> DEFINE g == GoLive(replace)
           save == IF replace THEN "replace" ELSE "keep"
<1>1. /\ g[1] = <<"role", "aws">> /\ g[2] = <<"policy", "aws">>
      /\ g[3] = <<"images", "aws">> /\ g[4] = <<save, "aws">>
    <2>1. /\ g[1] = Provision("aws", replace)[1] /\ g[2] = Provision("aws", replace)[2]
          /\ g[3] = Provision("aws", replace)[3] /\ g[4] = Provision("aws", replace)[4]
        <3>1. \A i \in 1..4 : g[i] = Provision("aws", replace)[i]
            BY GoLiveCalls
        <3> HIDE DEF g
        <3> QED  BY <3>1
    <2>2. Provision("aws", replace) =
              << <<"role", "aws">>, <<"policy", "aws">>, <<"images", "aws">>, <<save, "aws">> >>
        BY DEF Provision
    <2> QED  BY <2>1, <2>2
<1>2. /\ g[5] = <<"group", "azure">> /\ g[6] = <<"resources", "azure">>
      /\ g[7] = <<save, "azure">>
    <2>1. g[4 + 1] = Provision("azure", replace)[1] /\ g[4 + 2] = Provision("azure", replace)[2]
          /\ g[4 + 3] = Provision("azure", replace)[3]
        BY GoLiveCalls
    <2> QED  BY <2>1 DEF Provision
<1>3. g[8] = <<"images", "gcp">> /\ g[9] = <<save, "gcp">>
    <2>1. g[7 + 1] = Provision("gcp", replace)[1] /\ g[7 + 2] = Provision("gcp", replace)[2]
        BY GoLiveCalls
    <2> QED  BY <2>1 DEF Provision
<1>4. save \in {"keep", "replace"}
    OBVIOUS
<1>5. ASSUME k > 9
      PROVE  /\ op \in {"apply", "rebase", "save", "link", "finish"} /\ x \in Service
             /\ op = "finish" <=> k = 26
    <2>1. k - 9 \in 1..17 /\ 9 + (k - 9) = k
        BY <1>5
    <2> DEFINE i == k - 9
    <2> HIDE DEF i
    <2>2. i \in 1..17 /\ 9 + i = k
        BY <2>1 DEF i
    <2>3. BootstrapHosts[i] = <<op, x>>
        BY <2>2, GoLiveCalls
    <2>4. BootstrapHosts[i][1] \in {"apply", "rebase", "save", "link", "finish"}
        BY <2>2, Places DEF Service
    <2>5. x \in Service
        BY <2>2, <2>3, BootstrapCalls DEF Service, AwsService
    <2>6. op = "finish" <=> i = 17
        BY <2>2, <2>3, BootstrapCalls
    <2> QED  BY <2>2, <2>3, <2>4, <2>5, <2>6
<1> HIDE DEF g, save
<1>6. CASE k \in 1..9
    <2>1. k \in {1, 2, 3, 4, 5, 6, 7, 8, 9} /\ g[k] = <<op, x>>
        BY <1>6 DEF g
    <2> QED  BY <1>1, <1>2, <1>3, <1>4, <2>1
<1> QED  BY <1>5, <1>6

\* It is at its call k.
RunsAt(replace, k, op, x) ==
    /\ Prepared(k) /\ GoLive(replace)[k] = <<op, x>>
    /\ plan = SubSeq(GoLive(replace), k, 26)
    /\ Tail(plan) = SubSeq(GoLive(replace), k + 1, 26)
    /\ k = 26 => Tail(plan) = <<>>

\* A call that is made leaves the next, and the last one leaves none.
LEMMA RunCall ==
    ASSUME NEW replace \in BOOLEAN, RunInv(replace), NEW op, NEW x, At(op, x)
    PROVE  \E k \in 1..26 : RunsAt(replace, k, op, x)
<1>1. plan # <<>> /\ Head(plan) = <<op, x>>
    BY DEF At
<1>2. PICK k \in 1..26 : plan = SubSeq(GoLive(replace), k, 26) /\ Prepared(k)
    BY <1>1 DEF RunInv
<1> DEFINE g == GoLive(replace)
<1>3. g \in Seq(Step) /\ Len(g) = 26
    BY GoLiveCalls
<1> HIDE DEF g
<1>4. LET rest == SubSeq(g, k, Len(g)) IN
      /\ Head(rest) = g[k] /\ Tail(rest) = SubSeq(g, k + 1, Len(g))
      /\ k = Len(g) => Tail(rest) = <<>>
    BY <1>3, HeadOfRest
<1>5. plan = SubSeq(g, k, Len(g))
    BY <1>2, <1>3 DEF g
<1>6. /\ Head(plan) = g[k] /\ Tail(plan) = SubSeq(g, k + 1, 26)
      /\ k = 26 => Tail(plan) = <<>>
    BY <1>3, <1>4, <1>5
<1>7. RunsAt(replace, k, op, x)
    BY <1>1, <1>2, <1>6 DEF g, RunsAt
<1> QED  BY <1>7

\* What a command of this run is blocked by.
LEMMA BlockedIsStuck ==
    ASSUME NEW replace \in BOOLEAN, TypeInv, RunInv(replace), Blocked
    PROVE  Stuck
<1> DEFINE op == Head(plan)[1]
           x  == Head(plan)[2]
<1>1. /\ plan # <<>>
      /\ \/ op \in {"role", "images", "group"} /\ manifest[x] = "broken"
         \/ op = "resources" /\ group \notin {"bare", "ready"}
         \/ op = "apply" /\ (~CanBuild(x) \/ app[x] = "create_failed")
         \/ op = "rebase" /\ app[x] # "running"
    BY DEF Blocked
<1>2. Head(plan) = <<op, x>>
    <2>1. plan \in Seq(Step)
        BY DEF TypeInv, TypeOK
    <2>2. Head(plan) \in Step
        BY <1>1, <2>1, HeadTailProperties
    <2> QED  BY <2>2 DEF Step
<1> HIDE DEF op, x
<1>3. At(op, x)
    BY <1>1, <1>2 DEF At
<1>here. PICK k \in 1..26 : RunsAt(replace, k, op, x)
    BY <1>3, RunCall
<1>4. Prepared(k) /\ GoLive(replace)[k] = <<op, x>>
    BY <1>here DEF RunsAt
<1>5. CASE op \in {"role", "images", "group"} /\ manifest[x] = "broken"
    <2>1. x \in {"aws", "gcp", "azure"}
        BY <1>4, <1>5, GoLivePlaces
    <2> QED  BY <1>5, <2>1 DEF Stuck, Cloud
<1>6. CASE op = "resources" /\ group \notin {"bare", "ready"}
    <2>1. k = 6
        BY <1>4, <1>6, GoLivePlaces
    <2> QED  BY <1>4, <1>6, <2>1 DEF Prepared
<1>7. CASE op = "apply" /\ (~CanBuild(x) \/ app[x] = "create_failed")
    <2>1. k > 9 /\ x \in Service
        BY <1>4, <1>7, GoLivePlaces
    <2>2. "aws" \in images /\ "gcp" \in images /\ group = "ready"
        BY <1>4, <2>1 DEF Prepared
    <2>3. CanBuild(x)
        BY <2>1, <2>2, CloudOfType DEF CanBuild, Service, AwsService
    <2> QED  BY <1>7, <2>1, <2>3 DEF Stuck
<1>8. CASE op = "rebase" /\ app[x] # "running"
    <2>1. x \in Service
        BY <1>4, <1>8, GoLivePlaces
    <2>2. app[x] # "absent"
        BY <1>1, <1>2, <1>8, <2>1 DEF RunInv
    <2>3. app[x] = "create_failed"
        BY <1>8, <2>1, <2>2 DEF TypeInv, TypeOK
    <2> QED  BY <2>1, <2>3 DEF Stuck
<1> QED  BY <1>1, <1>5, <1>6, <1>7, <1>8

\* What is prepared stays so, and a call that prepares does.
LEMMA PreparedNext ==
    ASSUME NEW k \in 1..26, Prepared(k), images \subseteq images',
           group \in {"absent", "bare", "ready"}, group' \in {"absent", "bare", "ready"},
           group \in {"bare", "ready"} => group' \in {"bare", "ready"},
           group = "ready" => group' = "ready",
           k = 3 => "aws" \in images', k = 8 => "gcp" \in images',
           k = 5 => group' # "absent", k = 6 => group' = "ready"
    PROVE  Prepared(k + 1)'
<1>1. (k + 1 > 3 => "aws" \in images') /\ (k + 1 > 8 => "gcp" \in images')
    BY DEF Prepared
<1>2. (k + 1 > 5 => group' \in {"bare", "ready"}) /\ (k + 1 > 6 => group' = "ready")
    BY DEF Prepared
<1> QED  BY <1>1, <1>2 DEF Prepared

\* A call of the run does what the next ones need.
LEMMA RunCallKeeps ==
    ASSUME NEW replace \in BOOLEAN, TypeInv, RunInv(replace), NEW op, NEW x, Call(op, x),
           group' \in {"absent", "bare", "ready"},
           \A k \in 1..26 : Prepared(k) /\ GoLive(replace)[k] = <<op, x>> => Prepared(k + 1)',
           op = "finish" => live' # "no",
           op = "apply" /\ x \in Service => app'[x] # "absent"
    PROVE  RunInv(replace)'
<1>1. At(op, x) /\ plan' = Tail(plan)
    BY DEF Call
<1>here. PICK k \in 1..26 : RunsAt(replace, k, op, x)
    BY <1>1, RunCall
<1>2. /\ Prepared(k) /\ GoLive(replace)[k] = <<op, x>>
      /\ plan = SubSeq(GoLive(replace), k, 26)
      /\ Tail(plan) = SubSeq(GoLive(replace), k + 1, 26)
      /\ k = 26 => Tail(plan) = <<>>
    BY <1>here DEF RunsAt
<1>3. k = 26 => op = "finish"
    BY <1>2, GoLivePlaces
<1>5. Prepared(k + 1)'
    BY <1>2
<1>6. plan' # <<>> => /\ k + 1 \in 1..26 /\ plan' = SubSeq(GoLive(replace), k + 1, 26)
    <2> SUFFICES ASSUME plan' # <<>>
                 PROVE  k + 1 \in 1..26 /\ plan' = SubSeq(GoLive(replace), k + 1, 26)
        OBVIOUS
    <2>1. plan' = SubSeq(GoLive(replace), k + 1, 26)
        BY <1>1, <1>2, Zenon
    <2>2. k # 26
        BY <1>1, <1>2, Zenon
    <2> QED  BY <2>1, <2>2
<1>7. plan' = <<>> => live' # "no"
    <2> SUFFICES ASSUME k # 26 PROVE plan' # <<>>
        BY <1>3
    <2> DEFINE g == GoLive(replace)
    <2>1. g \in Seq(Step) /\ Len(g) = 26 /\ k + 1 \in 1..26
        BY GoLiveCalls
    <2> HIDE DEF g
    <2>2. SubSeq(g, k + 1, Len(g)) # <<>>
        BY <2>1, HeadOfRest
    <2> QED  BY <1>1, <1>2, <2>1, <2>2 DEF g
<1>8. ASSUME NEW s \in Service, plan' # <<>>, Head(plan') = <<"rebase", s>>
      PROVE  app'[s] # "absent"
    BY <1>8, NextHead
<1> QED  BY <1>5, <1>6, <1>7, <1>8 DEF RunInv

\* A call that provisions nothing.
LEMMA PlainCall ==
    ASSUME NEW replace \in BOOLEAN, TypeInv, RunInv(replace), NEW op, NEW x, Call(op, x),
           UNCHANGED <<images, group>>,
           op \notin {"images", "group", "resources"},
           op = "finish" => live' # "no",
           op = "apply" /\ x \in Service => app'[x] # "absent"
    PROVE  RunInv(replace)'
<1>1. group' \in {"absent", "bare", "ready"} /\ group \in {"absent", "bare", "ready"}
    BY DEF RunInv
<1>2. ASSUME NEW k \in 1..26, Prepared(k), GoLive(replace)[k] = <<op, x>>
      PROVE  Prepared(k + 1)'
    <2>1. k \notin {3, 5, 6, 8}
        <3>1. GoLive(replace)[k] = <<op, x>>
            BY <1>2
        <3>2. k = 3 => op = "images"
            BY <3>1, GoLivePlaces
        <3>3. k = 5 => op = "group"
            BY <3>1, GoLivePlaces
        <3>4. k = 6 => op = "resources"
            BY <3>1, GoLivePlaces
        <3>5. k = 8 => op = "images"
            BY <3>1, GoLivePlaces
        <3> QED  BY <3>2, <3>3, <3>4, <3>5
    <2> QED  BY <1>1, <1>2, <2>1, PreparedNext
<1>3. \A k \in 1..26 : Prepared(k) /\ GoLive(replace)[k] = <<op, x>> => Prepared(k + 1)'
    BY <1>2, Zenon
<1> QED  BY <1>1, <1>3, RunCallKeeps

\* Every step of the run.
LEMMA StepRunInv ==
    ASSUME NEW replace \in BOOLEAN, TypeInv, RunInv(replace),
           [Progress \/ GroupGone]_vars
    PROVE  RunInv(replace)'
<1>services. "risk" \in Service /\ AwsService \subseteq Service
    BY DEF Service
<1>group. group \in {"absent", "bare", "ready"}
    BY DEF RunInv
<1>1. CASE EnsureRole
    <2>1. At("role", "aws") /\ plan # <<>> /\ UNCHANGED <<images, group>>
        BY <1>1 DEF EnsureRole, At
    <2>here. PICK k \in 1..26 : RunsAt(replace, k, "role", "aws")
        BY <2>1, RunCall
    <2>2. /\ GoLive(replace)[k] = <<"role", "aws">>
          /\ Tail(plan) = SubSeq(GoLive(replace), k + 1, 26)
        BY <2>here DEF RunsAt
    <2>3. k = 1
        BY <2>2, GoLivePlaces
    <2> DEFINE g == GoLive(replace)
    <2>4. /\ g \in Seq(Step) /\ Len(g) = 26 /\ g[2] = <<"policy", "aws">>
          /\ g[3] = <<"images", "aws">>
        <3>1. 3 \in 1..4
            OBVIOUS
        <3>2. g[3] = Provision("aws", replace)[3]
            BY <3>1, GoLiveCalls
        <3>3. Provision("aws", replace)[3] = <<"images", "aws">>
            BY DEF Provision
        <3> QED  BY <3>2, <3>3, GoLiveCalls
    <2>5. Tail(plan) = SubSeq(g, 2, 26)
        <3>1. k + 1 = 2
            BY <2>3
        <3> QED  BY <2>2, <3>1, Zenon
    <2> HIDE DEF g
    <2>6. /\ SubSeq(g, 2, 26) # <<>> /\ Head(SubSeq(g, 2, 26)) = <<"policy", "aws">>
          /\ Tail(SubSeq(g, 2, 26)) = SubSeq(g, 3, 26)
        <3>1. 2 \in 1..Len(g) /\ 2 + 1 = 3
            BY <2>4
        <3> QED  BY <2>4, <3>1, HeadOfRest
    <2>7. SubSeq(g, 3, 26) # <<>> /\ Head(SubSeq(g, 3, 26)) = <<"images", "aws">>
        <3>1. 3 \in 1..Len(g)
            BY <2>4
        <3> QED  BY <2>4, <3>1, HeadOfRest
    <2>8. plan' = SubSeq(g, 2, 26) \/ plan' = SubSeq(g, 3, 26)
        BY <1>1, <2>5, <2>6 DEF EnsureRole
    <2>9. Prepared(2)' /\ Prepared(3)'
        BY DEF Prepared
    <2>10. group' \in {"absent", "bare", "ready"}
        BY <2>1 DEF RunInv
    <2>11. \E k2 \in 1..26 : plan' = SubSeq(g, k2, 26) /\ Prepared(k2)'
        BY <2>8, <2>9
    <2>12. /\ plan' # <<>>
           /\ \A s \in Service : Head(plan') # <<"rebase", s>>
        BY <2>6, <2>7, <2>8
    <2> QED  BY <2>10, <2>11, <2>12 DEF RunInv, g
<1>2. CASE AttachPolicy
    <2>1. Call("policy", "aws") /\ UNCHANGED <<images, group>>
        BY <1>2 DEF AttachPolicy
    <2> QED  BY <2>1, PlainCall
<1>3. ASSUME NEW c \in {"aws", "gcp"}, EnsureImages, Call("images", c), images' = images \cup {c}
      PROVE  RunInv(replace)'
    <2>1. group' = group
        BY <1>3 DEF EnsureImages
    <2>2. ASSUME NEW k \in 1..26, Prepared(k), GoLive(replace)[k] = <<"images", c>>
          PROVE  Prepared(k + 1)'
        <3>1. /\ k = 3 => c = "aws"
              /\ k = 8 => c = "gcp"
              /\ k # 5 /\ k # 6
            BY <2>2, GoLivePlaces
        <3> QED  BY <1>3, <1>group, <2>1, <2>2, <3>1, PreparedNext
    <2> QED  BY <1>3, <1>group, <2>1, <2>2, RunCallKeeps
<1>4. CASE EnsureGroup
    <2>1. /\ Call("group", "azure") /\ images' = images
          /\ group' = IF group = "absent" THEN "bare" ELSE group
        BY <1>4 DEF EnsureGroup
    <2>2. ASSUME NEW k \in 1..26, Prepared(k), GoLive(replace)[k] = <<"group", "azure">>
          PROVE  Prepared(k + 1)'
        <3>1. k = 5
            BY <2>2, GoLivePlaces
        <3> QED  BY <1>group, <2>1, <2>2, <3>1, PreparedNext
    <2> QED  BY <1>group, <2>1, <2>2, RunCallKeeps
<1>5. CASE EnsureResources
    <2>1. Call("resources", "azure") /\ images' = images /\ group' = "ready"
        BY <1>5 DEF EnsureResources
    <2>2. ASSUME NEW k \in 1..26, Prepared(k), GoLive(replace)[k] = <<"resources", "azure">>
          PROVE  Prepared(k + 1)'
        <3>1. k = 6
            BY <2>2, GoLivePlaces
        <3> QED  BY <1>group, <2>1, <2>2, <3>1, PreparedNext
    <2> QED  BY <1>group, <2>1, <2>2, RunCallKeeps
<1>6. ASSUME NEW c \in Cloud, SaveProvisioned(c) PROVE RunInv(replace)'
    <2>1. PICK op \in {"keep", "replace"} : Call(op, c)
        BY <1>6 DEF SaveProvisioned
    <2>2. UNCHANGED <<images, group>>
        BY <1>6 DEF SaveProvisioned, cloud
    <2> QED  BY <2>1, <2>2, PlainCall
<1>7. ASSUME NEW c \in Cloud, Delete(c) PROVE RunInv(replace)'
    <2>1. PICK op : At(op, c) /\ (op = "delete" \/ op = "delete, keep storage")
        BY <1>7 DEF Delete, Call
    <2>here. PICK k \in 1..26 : RunsAt(replace, k, op, c)
        BY <2>1, RunCall
    <2>2. GoLive(replace)[k] = <<op, c>>
        BY <2>here DEF RunsAt
    <2>3. op \in {"role", "policy", "images", "group", "resources", "keep", "replace",
                  "apply", "rebase", "save", "link", "finish"}
        BY <2>2, GoLivePlaces
    <2> QED  BY <2>1, <2>3
<1>8. ASSUME NEW s \in Service, Create(s) PROVE RunInv(replace)'
    <2>1. Call("apply", s) /\ UNCHANGED <<images, group>>
        BY <1>8 DEF Create
    <2>2. app'[s] # "absent"
        BY <1>8 DEF Create, TypeInv, TypeOK
    <2> QED  BY <2>1, <2>2, PlainCall
<1>9. ASSUME NEW s \in Service, Update(s) PROVE RunInv(replace)'
    <2>1. Call("apply", s) /\ UNCHANGED <<images, group>> /\ app'[s] # "absent"
        BY <1>9 DEF Update
    <2> QED  BY <2>1, PlainCall
<1>10. ASSUME NEW s \in Service, Rebase(s) PROVE RunInv(replace)'
    <2>1. Call("rebase", s) /\ UNCHANGED <<images, group>>
        BY <1>10 DEF Rebase
    <2> QED  BY <2>1, PlainCall
<1>11. ASSUME NEW s \in Service, SaveDeployed(s) PROVE RunInv(replace)'
    <2>1. Call("save", s) /\ UNCHANGED <<images, group>>
        BY <1>11 DEF SaveDeployed, cloud
    <2> QED  BY <2>1, PlainCall
<1>12. CASE LinkRisk
    <2>1. Call("link", "risk") /\ UNCHANGED <<images, group>>
        BY <1>12 DEF LinkRisk
    <2> QED  BY <2>1, PlainCall
<1>13. CASE Finish
    <2>1. Call("finish", "risk") /\ UNCHANGED <<images, group>> /\ live' # "no"
        BY <1>13 DEF Finish
    <2> QED  BY <2>1, PlainCall
<1>14. CASE Exit
    <2>1. Stuck
        BY <1>14, BlockedIsStuck DEF Exit
    <2>2. plan' = <<>> /\ UNCHANGED <<app, role, group, manifest>>
        BY <1>14 DEF Exit, cloud, files
    <2>3. Stuck'
        BY <2>1, <2>2 DEF Stuck
    <2> QED  BY <2>2, <2>3 DEF RunInv
<1>15. CASE GroupGone
    BY <1>15 DEF GroupGone, RunInv
<1>16. CASE UNCHANGED vars
    <2>1. UNCHANGED <<app, role, images, group, manifest, plan, live>>
        BY <1>16 DEF vars, cloud, files
    <2>2. /\ \A k : Prepared(k)' <=> Prepared(k)
          /\ Stuck' <=> Stuck
        BY <2>1 DEF Prepared, Stuck
    <2> QED  BY <2>1, <2>2 DEF RunInv
<1> QED
    BY <1>1, <1>2, <1>3, <1>4, <1>5, <1>6, <1>7, <1>8, <1>9, <1>10, <1>11, <1>12, <1>13,
       <1>14, <1>15, <1>16 DEF Progress, DeployStep, EnsureImages

\* Every step of the command is one of those it had to make.
LEMMA CommandGetsOn ==
    ASSUME TypeInv, Progress
    PROVE  Len(plan') < Len(plan)
<1>1. plan \in Seq(Step) /\ Shape(plan)
    BY DEF TypeInv, TypeOK
<1>2. ASSUME plan # <<>> PROVE Len(plan) > 0 /\ Len(plan) \in Nat
    <2>1. Len(plan) # 0 /\ Len(plan) \in Nat
        BY <1>1, <1>2, EmptySeq, LenProperties
    <2> QED  BY <2>1
<1>3. ASSUME plan # <<>>
      PROVE  Tail(plan) \in Seq(Step) /\ Len(Tail(plan)) = Len(plan) - 1
    BY <1>1, <1>3, HeadTailProperties
<1>4. ASSUME NEW op, NEW x, Call(op, x) PROVE Len(plan') < Len(plan)
    <2>1. plan # <<>> /\ plan' = Tail(plan)
        BY <1>4 DEF Call, At
    <2> QED  BY <1>2, <1>3, <2>1
<1>5. CASE EnsureRole
    <2>1. /\ plan # <<>> /\ Head(plan) = <<"role", "aws">>
          /\ plan' = Tail(plan) \/ plan' = Tail(Tail(plan))
        BY <1>5 DEF EnsureRole, At
    <2>2. 1 \in DOMAIN plan /\ plan[1] = <<"role", "aws">> /\ DOMAIN plan = 1..Len(plan)
        BY <1>1, <1>2, <2>1, HeadTailProperties, LenProperties
    <2>3. 1 + 1 \in DOMAIN plan
        BY <1>1, <2>2 DEF Shape
    <2>4. Len(Tail(plan)) > 0
        BY <1>2, <1>3, <2>1, <2>2, <2>3
    <2>5. Tail(plan) # <<>>
        BY <2>4, EmptySeq
    <2>6. Len(Tail(Tail(plan))) = Len(Tail(plan)) - 1
        BY <1>3, <2>1, <2>5, HeadTailProperties
    <2>7. Len(Tail(plan)) < Len(plan)
        BY <1>2, <1>3, <2>1
    <2>8. Len(Tail(Tail(plan))) < Len(plan)
        <3>1. Len(Tail(plan)) = Len(plan) - 1 /\ Len(plan) \in Nat
            BY <1>2, <1>3, <2>1
        <3> QED  BY <2>6, <3>1
    <2> QED  BY <2>1, <2>7, <2>8
<1>6. CASE Exit
    <2>1. plan # <<>> /\ plan' = <<>>
        BY <1>6 DEF Exit, Blocked
    <2> QED  BY <1>2, <2>1, EmptySeq
<1>7. CASE \E op, x : Call(op, x)
    BY <1>4, <1>7
<1>8. AttachPolicy \/ EnsureImages \/ EnsureGroup \/ EnsureResources \/ LinkRisk \/ Finish
      => \E op, x : Call(op, x)
    BY DEF AttachPolicy, EnsureImages, EnsureGroup, EnsureResources, LinkRisk, Finish
<1>9. ASSUME NEW c \in Cloud, SaveProvisioned(c) \/ Delete(c) PROVE \E op, x : Call(op, x)
    BY <1>9 DEF SaveProvisioned, Delete
<1>10. ASSUME NEW s \in Service, DeployStep(s) PROVE \E op, x : Call(op, x)
    BY <1>10 DEF DeployStep, Create, Update, Rebase, SaveDeployed
<1> QED  BY <1>5, <1>6, <1>7, <1>8, <1>9, <1>10 DEF Progress

\* At its beginning a go-live is where it should be.
LEMMA RunBegins ==
    ASSUME NEW replace \in BOOLEAN, TypeOK, group # "deleting", plan = GoLive(replace)
    PROVE  TypeInv /\ RunInv(replace)
<1>1. TypeInv
    BY GoLiveShape DEF TypeInv
<1>2. SubSeq(GoLive(replace), 1, 26) = plan
    BY Rests
<1>3. plan # <<>> /\ Head(plan) = <<"role", "aws">>
    <2>1. 1 \in 1..9
        OBVIOUS
    <2>2. /\ SubSeq(GoLive(replace), 1, 26) # <<>>
          /\ Head(SubSeq(GoLive(replace), 1, 26)) = GoLive(replace)[1]
        BY <2>1, Rests
    <2>3. GoLive(replace)[1] = <<"role", "aws">>
        BY GoLiveCalls
    <2> QED  BY <1>2, <2>2, <2>3
<1>4. Prepared(1) /\ 1 \in 1..26
    BY DEF Prepared
<1>5. \A s \in Service : Head(plan) # <<"rebase", s>>
    BY <1>3
<1>6. group \in {"absent", "bare", "ready"}
    BY DEF TypeOK
<1> QED  BY <1>1, <1>2, <1>3, <1>4, <1>5, <1>6 DEF RunInv

\* A go-live that nobody stops comes, whatever was left behind, to its end in at
\* most as many steps as it has calls, and it ends with everything deployed or
\* because of something no go-live repairs: a manifest that cannot be read, a
\* service whose creation failed, a role without its policy.
THEOREM GoLiveEnds ==
    ASSUME NEW replace \in BOOLEAN
    PROVE  GoLiveRun(replace) => []Completes /\ [][Progress => Len(plan') < Len(plan)]_vars
<1>1. TypeOK /\ group # "deleting" /\ plan = GoLive(replace) => TypeInv /\ RunInv(replace)
    BY RunBegins
<1>2. TypeInv /\ RunInv(replace) /\ [Progress \/ GroupGone]_vars
      => TypeInv' /\ RunInv(replace)'
    <2>1. [Progress \/ GroupGone]_vars => [Next]_vars
        BY DEF Next
    <2> QED  BY <2>1, StepTypeInv, StepRunInv
<1>3. TypeInv /\ RunInv(replace) => Completes
    <2> SUFFICES ASSUME TypeInv, RunInv(replace) PROVE Completes
        OBVIOUS
    <2>1. Blocked => Stuck
        BY BlockedIsStuck
    <2> QED  BY <2>1 DEF Completes, RunInv
<1>4. TypeInv /\ [Progress \/ GroupGone]_vars => [Progress => Len(plan') < Len(plan)]_vars
    BY CommandGetsOn
<1> QED  BY <1>1, <1>2, <1>3, <1>4, PTL DEF GoLiveRun

=============================================================================
