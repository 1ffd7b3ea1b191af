------------------------ MODULE PlatformBuildProofs ------------------------
(***************************************************************************)
(* Proofs about PlatformBuild, for any platforms, configurations and       *)
(* payloads and any number of changes to them.                             *)
(***************************************************************************)
EXTENDS PlatformBuild, NatLemmas

ScriptSteps == {"discover", "config", "payload", "write_ld", "write_rs", "write_payload"}

\* From payload_config on, the payload's size is one that passed its assert.
SizeAccepted ==
    step \in {"write_ld", "write_rs", "write_payload"} /\ local.payload # None =>
        local.payload \in Nat /\ PayloadAccepted(local.payload)

\* What main has written so far is made from the locals it still has.
WrittenFromLocals ==
    /\ step \in {"write_rs", "write_payload"} => out.ld = linker_script
    /\ step = "write_payload" => /\ out.rs.image = local.image
                                 /\ out.rs.payload_address = local.payload_address

\* The inductive invariant.
BuildInv ==
    /\ payload \in Payloads \cup {None}
    /\ DOMAIN local = {"image", "payload_address", "payload"}
    /\ DOMAIN out = {"ld", "rs", "payload"}
    /\ step \in ScriptSteps => ~succeeded
    /\ step = "rustc" => succeeded
    /\ SizeAccepted
    /\ WrittenFromLocals
    /\ OutputsAgree

\* next_multiple_of(n, 4) is a multiple of 4 that is not below n: the section
\* that holds the payload is aligned.
LEMMA NextMultipleOf ==
    ASSUME NEW n \in Nat
    PROVE  /\ next_multiple_of(n, PAYLOAD_SECTION_ALIGNMENT) \in Nat
           /\ n <= next_multiple_of(n, PAYLOAD_SECTION_ALIGNMENT)
           /\ next_multiple_of(n, PAYLOAD_SECTION_ALIGNMENT) % PAYLOAD_SECTION_ALIGNMENT = 0
  BY DEF next_multiple_of, PAYLOAD_SECTION_ALIGNMENT

\* Every step of cargo and of the script, and every change of a file at any
\* time, keeps the invariant.
LEMMA BuildInvariant == BuildSpec => []BuildInv
<1>1. BuildInit => BuildInv
  BY DEF BuildInit, BuildInv, ScriptSteps, SizeAccepted, WrittenFromLocals, OutputsAgree, FitTogether, Unset
<1>2. BuildInv /\ [BuildNext]_buildvars => BuildInv'
  <2> SUFFICES ASSUME BuildInv, [BuildNext]_buildvars
               PROVE  BuildInv'
    OBVIOUS
  <2>1. CASE UNCHANGED buildvars
    BY <2>1 DEF buildvars, files, cargo, locals, BuildInv, ScriptSteps, SizeAccepted,
                WrittenFromLocals, OutputsAgree, FitTogether, linker_script
  <2>2. CASE \E p \in Names, new \in Configs \cup {None} : EditConfig(p, new)
    BY <2>2 DEF EditConfig, Edited, locals, BuildInv, ScriptSteps, SizeAccepted,
                WrittenFromLocals, OutputsAgree, FitTogether, linker_script
  <2>3. CASE \E p \in Names : EditSources(p)
    BY <2>3 DEF EditSources, Edited, locals, BuildInv, ScriptSteps, SizeAccepted,
                WrittenFromLocals, OutputsAgree, FitTogether, linker_script
  <2>4. CASE \E new \in Payloads \cup {None} : EditPayload(new)
    BY <2>4 DEF EditPayload, Edited, locals, BuildInv, ScriptSteps, SizeAccepted,
                WrittenFromLocals, OutputsAgree, FitTogether, linker_script
  <2>5. CASE \E c \in Command : CargoBuild(c)
    BY <2>5 DEF CargoBuild, locals, BuildInv, ScriptSteps, SizeAccepted,
                WrittenFromLocals, OutputsAgree, FitTogether, linker_script
  <2>6. CASE RunScript
    BY <2>6 DEF RunScript, files, locals, BuildInv, ScriptSteps, SizeAccepted,
                WrittenFromLocals, OutputsAgree, FitTogether
  <2>7. CASE SkipScript
    BY <2>7 DEF SkipScript, ScriptIsStale, files, cargo, locals, BuildInv, ScriptSteps, SizeAccepted,
                WrittenFromLocals, OutputsAgree, FitTogether
  <2>8. CASE Rustc
    <3>1. /\ succeeded /\ step' \in {"built", "failed"}
          /\ UNCHANGED <<payload, local, out, succeeded>>
      BY <2>8 DEF Rustc, files, locals, BuildInv
    <3>2. \/ image' = image
          \/ /\ out.payload # None => payload # None /\ payload.size = out.payload
             /\ image' = [ld |-> out.ld, rs |-> out.rs,
                          payload |-> IF out.payload = None THEN None ELSE payload]
      BY <2>8 DEF Rustc
    <3>3. OutputsAgree'
      BY <3>1, <3>2 DEF OutputsAgree, FitTogether, BuildInv
    <3> QED
      BY <3>1, <3>3 DEF BuildInv, ScriptSteps, SizeAccepted, WrittenFromLocals
  <2>9. CASE Discover
    BY <2>9 DEF Discover, Panics, Ends, Unset, files, cargo, BuildInv, ScriptSteps, SizeAccepted,
                WrittenFromLocals, OutputsAgree, FitTogether
  <2>10. CASE PlatformConfig
    BY <2>10 DEF PlatformConfig, Panics, Ends, Unset, files, cargo, BuildInv, ScriptSteps,
                 SizeAccepted, WrittenFromLocals, OutputsAgree, FitTogether
  <2>11. CASE payload_config
    <3>1. /\ payload' = payload /\ succeeded' = succeeded /\ out' = out /\ ~succeeded
          /\ DOMAIN local' = {"image", "payload_address", "payload"}
          /\ step' \in {"write_ld", "failed"} /\ image' = image
      BY <2>11 DEF payload_config, Panics, Ends, Unset, files, cargo, BuildInv, ScriptSteps
    <3>2. SizeAccepted'
      <4> SUFFICES ASSUME step' = "write_ld", local'.payload # None
                   PROVE  local'.payload \in Nat /\ PayloadAccepted(local'.payload)
        BY <3>1 DEF SizeAccepted, PayloadAccepted
      <4>1. /\ command.payload => payload # None /\ PayloadAccepted(payload.size)
            /\ local'.payload = IF command.payload THEN payload.size ELSE None
        BY <2>11 DEF payload_config, Panics, BuildInv
      <4>2. payload \in Payload /\ local'.payload = payload.size
        BY <4>1, BuildAssumption DEF BuildInv
      <4> QED
        BY <4>1, <4>2 DEF Payload
    <3> QED
      BY <3>1, <3>2 DEF BuildInv, ScriptSteps, WrittenFromLocals, OutputsAgree, FitTogether
  <2>12. CASE WriteLinkerScript
    BY <2>12 DEF WriteLinkerScript, linker_script, files, cargo, locals, BuildInv, ScriptSteps,
                 SizeAccepted, WrittenFromLocals, OutputsAgree, FitTogether
  <2>13. CASE WriteModule
    BY <2>13 DEF WriteModule, platform_module_source, linker_script, Panics, Ends, Unset, files,
                 cargo, locals, BuildInv, ScriptSteps, SizeAccepted, WrittenFromLocals, OutputsAgree, FitTogether
  <2>14. CASE WritePayload
    <3>1. /\ step' = "rustc" /\ payload' = payload /\ image' = image /\ succeeded'
          /\ DOMAIN local' = {"image", "payload_address", "payload"}
          /\ DOMAIN out' = {"ld", "rs", "payload"}
          /\ out'.ld = out.ld /\ out'.rs = out.rs /\ out'.payload = local.payload
      BY <2>14 DEF WritePayload, payload_source_code, Ends, Unset, files, cargo, BuildInv
    <3>2. /\ out.ld = linker_script
          /\ out.rs.image = local.image /\ out.rs.payload_address = local.payload_address
      BY <2>14 DEF WritePayload, BuildInv, WrittenFromLocals
    <3>3. ASSUME out'.payload # None
          PROVE  \E n \in 0 .. PAYLOAD_SIZE_LIMIT :
                     n % PAYLOAD_SECTION_ALIGNMENT = 0 /\ out'.payload <= n
      <4>1. local.payload \in Nat /\ PayloadAccepted(local.payload)
        BY <2>14, <3>1, <3>3 DEF WritePayload, BuildInv, SizeAccepted
      <4>2. /\ next_multiple_of(local.payload, PAYLOAD_SECTION_ALIGNMENT)
                   \in 0 .. PAYLOAD_SIZE_LIMIT
            /\ next_multiple_of(local.payload, PAYLOAD_SECTION_ALIGNMENT)
                   % PAYLOAD_SECTION_ALIGNMENT = 0
            /\ local.payload <= next_multiple_of(local.payload, PAYLOAD_SECTION_ALIGNMENT)
        BY <4>1, NextMultipleOf, BuildAssumption DEF PayloadAccepted
      <4> QED
        BY <4>2, <3>1
    <3>4. FitTogether(out.ld, out.rs, out.payload)'
      BY <3>1, <3>2, <3>3 DEF FitTogether, linker_script
    <3>5. OutputsAgree'
      BY <3>1, <3>4 DEF OutputsAgree, BuildInv, FitTogether
    <3> QED
      BY <3>1, <3>5 DEF BuildInv, ScriptSteps, SizeAccepted, WrittenFromLocals
  <2> QED
    BY <2>1, <2>2, <2>3, <2>4, <2>5, <2>6, <2>7, <2>8, <2>9, <2>10, <2>11, <2>12, <2>13,
       <2>14 DEF BuildNext, Cargo, BuildScript, Edit
<1> QED
  BY <1>1, <1>2, PTL DEF BuildSpec

(***************************************************************************)
(* The outputs of a build script that succeeded, and the parts of every    *)
(* image, fit together, for any files and any changes while it runs: main  *)
(* reads each input once, the three files are made from what it read, and  *)
(* payload.rs takes a payload of the size that was checked only.           *)
(***************************************************************************)
THEOREM OutputsFit == BuildSpec => []OutputsAgree
<1>1. BuildInv => OutputsAgree
  BY DEF BuildInv
<1> QED
  BY <1>1, BuildInvariant, PTL

-----------------------------------------------------------------------------
(* parse_platform_config() *)

\* What a configuration is after i lines, in terms of these lines.
Parses(config, source, i) ==
    IF \A j \in 1 .. i : source[j].kind # "no_equals" /\ Sound(source[j])
    THEN /\ config \in Config
         /\ DOMAIN config = {source[j].key : j \in {k \in 1 .. i : source[k].kind = "pair"}}
         /\ \A j \in 1 .. i :
                (source[j].kind = "pair" /\ \A k \in j + 1 .. i : ~Says(source, k, source[j].key))
                    => config[source[j].key] = source[j].number
    ELSE config = None

\* A line of a file and its fields.
LEMMA LineFields ==
    ASSUME NEW source \in Configs, NEW i \in 1 .. Len(source)
    PROVE  /\ source[i].kind \in {"comment", "no_equals", "pair"}
           /\ source[i].kind = "pair" => source[i].number \in Nat /\ source[i].key \in Keys
<1>1. source \in Seq(Line)
  BY BuildAssumption
<1>2. ASSUME NEW S, NEW s \in Seq(S), NEW n \in 1 .. Len(s)
      PROVE  s[n] \in S /\ n \in DOMAIN s
  OBVIOUS
<1>3. source[i] \in Line /\ i \in DOMAIN source
  BY <1>1, <1>2
<1>4. /\ source[i].kind \in {"comment", "no_equals", "pair"}
      /\ source[i].kind = "pair" => source[i].number \in Nat
  BY <1>3 DEF Line
<1>5. source[i].kind = "pair" => source[i].key \in Keys
  BY <1>3 DEF Keys
<1> QED
  BY <1>4, <1>5

\* A Config is a function from keys to addresses, and nothing else is.
LEMMA ConfigIs ==
    ASSUME NEW config
    PROVE  config \in Config <=> /\ DOMAIN config \subseteq Keys
                                 /\ config \in [DOMAIN config -> Address]
  BY DEF Config

\* One line: what it adds is what the lines up to it say.
LEMMA ParseStep ==
    ASSUME NEW source \in Configs, NEW i \in Nat, i + 1 <= Len(source),
           NEW config, Parses(config, source, i)
    PROVE  Parses(ParseLine(config, source[i + 1]), source, i + 1)
<1> DEFINE line == source[i + 1]
           next == ParseLine(config, line)
           Good(n) == \A j \in 1 .. n : source[j].kind # "no_equals" /\ Sound(source[j])
           Pairs(n) == {k \in 1 .. n : source[k].kind = "pair"}
<1>1. i + 1 \in 1 .. Len(source) /\ Len(source) \in Nat
  <2>1. source \in Seq(Line)
    BY BuildAssumption
  <2> QED
    BY <2>1
<1>2. 1 .. i + 1 = (1 .. i) \cup {i + 1}
  OBVIOUS
<1>3. Good(i + 1) <=> Good(i) /\ line.kind # "no_equals" /\ Sound(line)
  BY <1>2
<1>4. /\ line.kind \in {"comment", "no_equals", "pair"}
      /\ line.kind = "pair" => line.number \in Nat /\ line.key \in Keys
  BY <1>1, LineFields
<1>5. None \notin Config /\ None \notin Nat /\ WORD \in Nat \ {0}
  BY BuildAssumption
<1>6. config = None <=> ~Good(i)
  BY <1>5 DEF Parses
<1>7. CASE ~Good(i)
  BY <1>3, <1>6, <1>7 DEF ParseLine, Parses
<1>8. CASE Good(i) /\ line.kind = "comment"
  <2>1. next = config /\ Good(i + 1)
    BY <1>3, <1>8 DEF ParseLine, Sound
  <2>2. Pairs(i + 1) = Pairs(i)
    BY <1>2, <1>8
  <2>3. ASSUME NEW j \in 1 .. i + 1, source[j].kind = "pair",
               \A k \in j + 1 .. i + 1 : ~Says(source, k, source[j].key)
        PROVE  config[source[j].key] = source[j].number
    <3>1. j \in 1 .. i /\ \A k \in j + 1 .. i : ~Says(source, k, source[j].key)
      BY <1>2, <1>8, <2>3
    <3> QED
      BY <1>8, <2>3, <3>1 DEF Parses
  <2>4. config \in Config /\ DOMAIN config = {source[j].key : j \in Pairs(i)}
    BY <1>8 DEF Parses
  <2> HIDE DEF next
  <2> QED
    BY <2>1, <2>2, <2>3, <2>4 DEF Parses, next
<1>9. CASE Good(i) /\ line.kind # "comment" /\ ~(line.kind = "pair" /\ Sound(line))
  <2>1. ~Good(i + 1)
    BY <1>3, <1>4, <1>9
  <2>2. line.kind = "no_equals" \/ line.key = "" \/ parse_int(line) = None
    BY <1>4, <1>9 DEF Sound, parse_int
  <2>3. next = None
    BY <1>6, <1>9, <2>2 DEF ParseLine
  <2> HIDE DEF next
  <2> QED
    BY <2>1, <2>3 DEF Parses, next
<1>10. CASE Good(i) /\ line.kind = "pair" /\ Sound(line)
  <2>1. /\ line.key # "" /\ line.digits /\ line.number < WORD /\ line.number \in Nat
        /\ line.key \in Keys
    BY <1>4, <1>10 DEF Sound
  <2>2. parse_int(line) = line.number /\ line.number # None /\ line.number \in Address
    <3>1. parse_int(line) = line.number
      BY <2>1, Zenon DEF parse_int
    <3>2. PICK number \in Nat : number = line.number /\ number < WORD
      BY <2>1
    <3> QED
      BY <1>5, <3>1, <3>2 DEF Address
  <2>3. next = HashMapInsert(config, line.key, line.number) /\ Good(i + 1)
    BY <1>3, <1>6, <1>10, <2>1, <2>2 DEF ParseLine
  <2>4. config \in Config /\ DOMAIN config = {source[j].key : j \in Pairs(i)}
    BY <1>10 DEF Parses
  <2>5. /\ DOMAIN next = DOMAIN config \cup {line.key} /\ next[line.key] = line.number
        /\ \A k \in DOMAIN config : k # line.key => next[k] = config[k]
    BY <2>3 DEF HashMapInsert
  <2>6. next \in Config
    <3>1. DOMAIN config \subseteq Keys /\ config \in [DOMAIN config -> Address]
      BY <2>4, ConfigIs
    <3>2. next \in [DOMAIN config \cup {line.key} -> Address]
      BY <2>2, <2>3, <3>1 DEF HashMapInsert
    <3> HIDE DEF next, line
    <3> QED
      BY <2>1, <2>5, <3>1, <3>2, ConfigIs
  <2>7. Pairs(i + 1) = Pairs(i) \cup {i + 1}
    BY <1>2, <1>10
  <2>8. DOMAIN next = {source[j].key : j \in Pairs(i + 1)}
    <3> HIDE DEF Pairs, next
    <3> QED
      BY <2>4, <2>5, <2>7
  <2>9. ASSUME NEW j \in 1 .. i + 1, source[j].kind = "pair",
               \A k \in j + 1 .. i + 1 : ~Says(source, k, source[j].key)
        PROVE  next[source[j].key] = source[j].number
    <3>1. CASE j = i + 1
      BY <2>5, <3>1
    <3>2. CASE j \in 1 .. i
      <4>1. i + 1 \in j + 1 .. i + 1 /\ \A k \in j + 1 .. i : k \in j + 1 .. i + 1
        BY <3>2
      <4>2. source[j].key # line.key
        BY <1>10, <2>9, <4>1 DEF Says
      <4>3. config[source[j].key] = source[j].number
        BY <1>10, <2>9, <3>2, <4>1 DEF Parses
      <4>4. source[j].key \in DOMAIN config
        BY <2>4, <2>9, <3>2
      <4> QED
        BY <2>5, <4>2, <4>3, <4>4
    <3> QED
      BY <1>2, <3>1, <3>2
  <2> HIDE DEF next
  <2> QED
    BY <2>3, <2>6, <2>8, <2>9 DEF Parses, next
<1> QED
  BY <1>4, <1>7, <1>8, <1>9, <1>10

\* Nothing has been parsed before the first line.
LEMMA ParseNothing ==
    ASSUME NEW source
    PROVE  Parses(<<>>, source, 0)
<1>1. DOMAIN <<>> = {} /\ <<>> \in [{} -> Address]
  OBVIOUS
<1>2. 1 .. 0 = {}
  OBVIOUS
<1>3. <<>> \in Config
  BY <1>1, ConfigIs
<1> QED
  BY <1>1, <1>2, <1>3 DEF Parses

\* f is the loop of parse_platform_config() over n lines.
ParsedTo(f, source, n) ==
    f = [i \in 0 .. n |-> IF i = 0 THEN <<>> ELSE ParseLine(f[i - 1], source[i])]

\* The loop is well defined.
LEMMA ParsedExists == \A source : \A n \in Nat : \E f : ParsedTo(f, source, n)
<1> SUFFICES ASSUME NEW source
             PROVE  \A n \in Nat : \E f : ParsedTo(f, source, n)
  OBVIOUS
<1> DEFINE S == {n \in Nat : \E f : ParsedTo(f, source, n)}
<1>1. 0 \in S
  <2> DEFINE f == [i \in 0 .. 0 |-> <<>>]
  <2>1. f = [i \in 0 .. 0 |-> IF i = 0 THEN <<>> ELSE ParseLine(f[i - 1], source[i])]
    OBVIOUS
  <2> HIDE DEF f
  <2> QED
    BY <2>1 DEF ParsedTo
<1>2. ASSUME NEW n \in Nat, n \in S
      PROVE  n + 1 \in S
  <2>1. PICK f : ParsedTo(f, source, n)
    BY <1>2
  <2>2. \A i \in 0 .. n : f[i] = IF i = 0 THEN <<>> ELSE ParseLine(f[i - 1], source[i])
    BY <2>1, Zenon DEF ParsedTo
  <2> DEFINE g == [i \in 0 .. n + 1 |->
                      IF i = 0 THEN <<>> ELSE ParseLine(f[i - 1], source[i])]
  <2>3. \A i \in 0 .. n : g[i] = f[i]
    BY <2>2
  <2>4. ASSUME NEW i \in 0 .. n + 1
        PROVE  g[i] = IF i = 0 THEN <<>> ELSE ParseLine(g[i - 1], source[i])
    <3>1. CASE i = 0
      BY <3>1
    <3>2. CASE i # 0
      <4>1. i - 1 \in 0 .. n
        BY <3>2
      <4>2. g[i - 1] = f[i - 1] /\ g[i] = ParseLine(f[i - 1], source[i])
        BY <2>3, <3>2, <4>1
      <4> HIDE DEF g
      <4> QED
        BY <3>2, <4>2
    <3> QED
      BY <3>1, <3>2
  <2>5. g = [i \in 0 .. n + 1 |-> g[i]]
    OBVIOUS
  <2> HIDE DEF g
  <2>6. ParsedTo(g, source, n + 1)
    BY <2>4, <2>5, Zenon DEF ParsedTo
  <2> QED
    BY <2>6
<1>3. Nat \subseteq S
  <2> HIDE DEF S
  <2> QED
    BY <1>1, <1>2, Inductive
<1> QED
  BY <1>3

\* It computes what the lines say, for any number of them.
LEMMA ParseAll ==
    ASSUME NEW source \in Configs
    PROVE  Parses(parse_platform_config(source), source, Len(source))
<1> DEFINE n == Len(source)
           f == CHOOSE g : ParsedTo(g, source, n)
<1>1. n \in Nat
  <2>1. source \in Seq(Line)
    BY BuildAssumption
  <2> QED
    BY <2>1
<1>2. parse_platform_config(source) = f[n]
  BY DEF parse_platform_config, ParsedTo
<1>3. ParsedTo(f, source, n)
  <2>1. \E g : ParsedTo(g, source, n)
    BY <1>1, ParsedExists
  <2> QED
    BY <2>1
<1> HIDE DEF f
<1>4. \A i \in 0 .. n : f[i] = IF i = 0 THEN <<>> ELSE ParseLine(f[i - 1], source[i])
  BY <1>3, Zenon DEF ParsedTo
<1> DEFINE S == {i \in Nat : i <= n => Parses(f[i], source, i)}
<1>5. 0 \in S
  <2>1. f[0] = <<>>
    BY <1>1, <1>4
  <2> QED
    BY <2>1, ParseNothing
<1>6. ASSUME NEW i \in Nat, i \in S
      PROVE  i + 1 \in S
  <2> SUFFICES ASSUME i + 1 <= n
               PROVE  Parses(f[i + 1], source, i + 1)
    OBVIOUS
  <2>1. Parses(f[i], source, i)
    BY <1>1, <1>6
  <2>2. i + 1 \in 0 .. n /\ i + 1 # 0 /\ (i + 1) - 1 = i
    BY <1>1
  <2>3. f[i + 1] = ParseLine(f[i], source[i + 1])
    BY <1>4, <2>2
  <2> QED
    BY <2>1, <2>3, ParseStep
<1>7. Nat \subseteq S
  <2> HIDE DEF S
  <2> QED
    BY <1>5, <1>6, Inductive
<1>8. n <= n
  BY <1>1
<1> QED
  BY <1>1, <1>2, <1>7, <1>8

\* The last line with a key, if there is one.
LEMMA LastLine ==
    ASSUME NEW source \in Configs, NEW key, \E i \in 1 .. Len(source) : Says(source, i, key)
    PROVE  \E i \in 1 .. Len(source) :
               Says(source, i, key) /\ \A j \in i + 1 .. Len(source) : ~Says(source, j, key)
<1> DEFINE n == Len(source)
           S == {k \in Nat : k < n /\ Says(source, n - k, key)}
<1>1. n \in Nat
  <2>1. source \in Seq(Line)
    BY BuildAssumption
  <2> QED
    BY <2>1
<1>2. PICK i \in 1 .. n : Says(source, i, key)
  OBVIOUS
<1> HIDE DEF n
<1>3. n - i \in S /\ S \in SUBSET Nat
  <2>1. n - i \in Nat /\ n - i < n /\ n - (n - i) = i
    BY <1>1
  <2> QED
    BY <1>2, <2>1
<1>4. PICK k \in S : \A m \in S : k <= m
  <2> HIDE DEF S
  <2> QED
    BY <1>3, LeastOf
<1>5. n - k \in 1 .. n /\ Says(source, n - k, key)
  BY <1>1, <1>4
<1>6. ASSUME NEW j \in (n - k) + 1 .. n, Says(source, j, key)
      PROVE  FALSE
  <2>1. n - j \in Nat /\ n - j < n /\ n - (n - j) = j /\ n - j < k
    BY <1>1, <1>4
  <2>2. n - j \in S
    BY <1>6, <2>1
  <2> QED
    BY <1>1, <1>4, <2>1, <2>2
<1> QED
  BY <1>5, <1>6 DEF n

\* So the two addresses are there exactly when the file is valid, and they are
\* those of the last lines that give them.
THEOREM ParseExact ==
    ASSUME NEW source \in Configs
    PROVE  LET config == parse_platform_config(source)
               Found(key) == config_value(config, key)
               keys == {RITM_IMAGE_ADDRESS_KEY, PAYLOAD_ADDRESS_KEY}
           IN  /\ ValidConfig(source) <=> config # None /\ \A key \in keys : Found(key) # None
               /\ ValidConfig(source) =>
                      \A key \in keys : Found(key) \in Address /\ Found(key) = ValueOf(source, key)
<1> DEFINE config == parse_platform_config(source)
           n == Len(source)
           keys == {RITM_IMAGE_ADDRESS_KEY, PAYLOAD_ADDRESS_KEY}
           Good == \A j \in 1 .. n : source[j].kind # "no_equals" /\ Sound(source[j])
<1>1. Parses(config, source, n)
  BY ParseAll
<1>2. ValidConfig(source)
          <=> Good /\ \A key \in keys : \E i \in 1 .. n : Says(source, i, key)
  BY DEF ValidConfig, ValidLines
<1>3. None \notin Config /\ None \notin Nat
  BY BuildAssumption
<1> HIDE DEF config, keys
<1>4. Good <=> config # None
  BY <1>1, <1>3 DEF Parses
<1>5. ASSUME Good
      PROVE  config \in [DOMAIN config -> Address]
  BY <1>1, <1>5, ConfigIs DEF Parses
<1>6. ASSUME Good, NEW key
      PROVE  key \in DOMAIN config <=> \E i \in 1 .. n : Says(source, i, key)
  BY <1>1, <1>6 DEF Parses, Says
<1>7. ASSUME Good, NEW key
      PROVE  config_value(config, key) # None <=> \E i \in 1 .. n : Says(source, i, key)
  <2>1. Address \subseteq Nat
    BY BuildAssumption DEF Address
  <2> QED
    BY <1>3, <1>5, <1>6, <1>7, <2>1 DEF config_value
<1>8. ASSUME Good, NEW key, \E i \in 1 .. n : Says(source, i, key)
      PROVE  config_value(config, key) \in Address
             /\ config_value(config, key) = ValueOf(source, key)
  <2> DEFINE Last(i) == Says(source, i, key) /\ \A j \in i + 1 .. n : ~Says(source, j, key)
             last == CHOOSE i \in 1 .. n : Last(i)
  <2>1. last \in 1 .. n /\ Last(last)
    <3>1. \E i \in 1 .. n : Last(i)
      BY <1>8, LastLine
    <3> HIDE DEF Last
    <3> QED
      BY <3>1
  <2>2. ValueOf(source, key) = source[last].number
    BY DEF ValueOf
  <2> HIDE DEF last
  <2>3. config[key] = source[last].number
    BY <1>1, <1>8, <2>1 DEF Parses, Says
  <2>4. key \in DOMAIN config
    BY <1>6, <1>8
  <2> QED
    BY <1>5, <1>8, <2>2, <2>3, <2>4 DEF config_value
<1> HIDE DEF Good, n
<1>9. ValidConfig(source) <=> config # None /\ \A key \in keys : config_value(config, key) # None
  BY <1>2, <1>4, <1>7
<1>10. ASSUME ValidConfig(source), NEW key \in keys
       PROVE  config_value(config, key) \in Address
              /\ config_value(config, key) = ValueOf(source, key)
  BY <1>2, <1>8, <1>10
<1> QED
  BY <1>9, <1>10 DEF config, keys

-----------------------------------------------------------------------------
(* Freshness: what the script has read, written and named, as long as the  *)
(* inputs it concerns have not changed since it started.                   *)

At(c) == ValueOf(conf[c.platform], RITM_IMAGE_ADDRESS_KEY)
LoadAt(c) == ValueOf(conf[c.platform], PAYLOAD_ADDRESS_KEY)

\* The inputs a whole run of the script names.
Inputs(c) == {"platforms", "sources"} \cup PayloadInputs(c.payload)

\* What the script has read so far.
ReadInv ==
    /\ step \in {"config", "payload", "write_ld", "write_rs", "write_payload"} =>
           /\ {"platforms", "sources"} \subseteq tracked
           /\ command.platform \in platforms
           /\ "platforms" \notin changed => platforms = discover_platforms
    /\ step \in {"payload", "write_ld", "write_rs", "write_payload"}
       /\ "platforms" \notin changed =>
               /\ conf[command.platform] # None /\ ValidConfig(conf[command.platform])
               /\ local.image = At(command) /\ local.payload_address = LoadAt(command)
    /\ step \in {"config", "payload"} => tracked = {"platforms", "sources"}
    /\ step \in {"write_ld", "write_rs", "write_payload"} =>
           /\ tracked = Inputs(command)
           /\ local.payload # None <=> command.payload
           /\ command.payload /\ "payload" \notin changed =>
                  payload # None /\ local.payload = payload.size

\* What it has written so far.
WrittenInv ==
    /\ step \in {"write_rs", "write_payload"} => out.ld = linker_script
    /\ step = "write_payload" =>
           /\ out.rs = [image |-> local.image, payload_address |-> local.payload_address,
                        source |-> out.rs.source]
           /\ "sources" \notin changed => out.rs.source = SourceOf(command.platform)

\* What a run that succeeded has left in OUT_DIR.
SucceededInv ==
    succeeded =>
        /\ tracked = Inputs(ran)
        /\ out.payload # None <=> ran.payload
        /\ "platforms" \notin changed =>
               /\ conf[ran.platform] # None /\ ValidConfig(conf[ran.platform])
               /\ out.ld = [image |-> At(ran),
                            payload |-> IF ran.payload THEN LoadAt(ran) ELSE None]
               /\ out.rs = [image |-> At(ran), payload_address |-> LoadAt(ran),
                            source |-> out.rs.source]
        /\ "sources" \notin changed => out.rs.source = SourceOf(ran.platform)
        /\ ran.payload /\ "payload" \notin changed =>
               payload # None /\ out.payload = payload.size

\* A build that is left alone runs the script from its start on the files as
\* they are, or finds that it need not.
CargoInv ==
    /\ step \in ScriptSteps => ran = command /\ ~compiled /\ (~moved => changed = {})
    /\ step \in {"rustc", "built"} =>
           succeeded /\ ran = command /\ (~moved => changed \cap tracked = {})
    /\ step = "built" /\ ~moved => compiled
    /\ compiled => image = [ld |-> out.ld, rs |-> out.rs,
                            payload |-> IF out.payload = None THEN None ELSE payload]

FreshInv ==
    /\ BuildTypeOK
    /\ ReadInv /\ WrittenInv /\ SucceededInv /\ CargoInv
    /\ ValidBuildSucceeds

\* A configuration file changes.
LEMMA EditConfigKeeps ==
    ASSUME BuildInv, FreshInv, NEW p \in Names, NEW new \in Configs \cup {None}, EditConfig(p, new)
    PROVE  FreshInv'
<1>1. BuildTypeOK'
  BY BuildAssumption DEF FreshInv, BuildTypeOK, EditConfig, Edited, locals
<1>2. ReadInv'
  BY DEF FreshInv, ReadInv, EditConfig, Edited, locals
<1>3. WrittenInv'
  BY DEF FreshInv, WrittenInv, EditConfig, Edited, locals, linker_script, SourceOf
<1>4. SucceededInv'
  BY DEF FreshInv, SucceededInv, EditConfig, Edited, SourceOf
<1>5. CargoInv'
  BY DEF FreshInv, CargoInv, EditConfig, Edited
<1>6. ValidBuildSucceeds'
  BY DEF ValidBuildSucceeds, EditConfig, Edited
<1> QED
  BY <1>1, <1>2, <1>3, <1>4, <1>5, <1>6 DEF FreshInv

\* A platform source comes or goes.
LEMMA EditSourcesKeeps ==
    ASSUME BuildInv, FreshInv, NEW p \in Names, EditSources(p)
    PROVE  FreshInv'
<1>1. BuildTypeOK'
  BY BuildAssumption DEF FreshInv, BuildTypeOK, EditSources, Edited, locals
<1>2. ReadInv'
  BY DEF FreshInv, ReadInv, EditSources, Edited, locals, At, LoadAt, discover_platforms
<1>3. WrittenInv'
  BY DEF FreshInv, WrittenInv, EditSources, Edited, locals, linker_script
<1>4. SucceededInv'
  BY DEF FreshInv, SucceededInv, EditSources, Edited, At, LoadAt
<1>5. CargoInv'
  BY DEF FreshInv, CargoInv, EditSources, Edited
<1>6. ValidBuildSucceeds'
  BY DEF ValidBuildSucceeds, EditSources, Edited
<1> QED
  BY <1>1, <1>2, <1>3, <1>4, <1>5, <1>6 DEF FreshInv

\* The payload changes.
LEMMA EditPayloadKeeps ==
    ASSUME BuildInv, FreshInv, NEW new \in Payloads \cup {None}, EditPayload(new)
    PROVE  FreshInv'
<1>1. BuildTypeOK'
  BY BuildAssumption DEF FreshInv, BuildTypeOK, EditPayload, Edited, locals
<1>2. ReadInv'
  BY DEF FreshInv, ReadInv, EditPayload, Edited, locals, At, LoadAt, discover_platforms
<1>3. WrittenInv'
  BY DEF FreshInv, WrittenInv, EditPayload, Edited, locals, linker_script, SourceOf
<1>4. SucceededInv'
  BY DEF FreshInv, SucceededInv, EditPayload, Edited, At, LoadAt, SourceOf
<1>5. CargoInv'
  BY DEF FreshInv, CargoInv, EditPayload, Edited
<1>6. ValidBuildSucceeds'
  BY DEF ValidBuildSucceeds, EditPayload, Edited
<1> QED
  BY <1>1, <1>2, <1>3, <1>4, <1>5, <1>6 DEF FreshInv

\* Someone calls cargo build.
LEMMA CargoBuildKeeps ==
    ASSUME BuildInv, FreshInv, NEW c \in Command, CargoBuild(c)
    PROVE  FreshInv'
<1>1. BuildTypeOK'
  BY BuildAssumption DEF FreshInv, BuildTypeOK, CargoBuild, locals
<1>2. ReadInv'
  BY DEF ReadInv, CargoBuild
<1>3. WrittenInv'
  BY DEF WrittenInv, CargoBuild
<1>4. SucceededInv'
  BY DEF FreshInv, SucceededInv, CargoBuild, At, LoadAt, SourceOf
<1>5. CargoInv'
  BY DEF FreshInv, CargoInv, ScriptSteps, CargoBuild
<1>6. ValidBuildSucceeds'
  BY DEF ValidBuildSucceeds, CargoBuild
<1> QED
  BY <1>1, <1>2, <1>3, <1>4, <1>5, <1>6 DEF FreshInv

\* Cargo runs the script.
LEMMA RunScriptKeeps ==
    ASSUME BuildInv, FreshInv, RunScript
    PROVE  FreshInv'
<1>1. BuildTypeOK'
  BY BuildAssumption DEF FreshInv, BuildTypeOK, RunScript, files, locals
<1>2. ReadInv'
  BY DEF ReadInv, RunScript
<1>3. WrittenInv'
  BY DEF WrittenInv, RunScript
<1>4. SucceededInv'
  BY DEF SucceededInv, RunScript
<1>5. CargoInv'
  BY DEF CargoInv, RunScript
<1>6. ValidBuildSucceeds'
  BY DEF ValidBuildSucceeds, RunScript
<1> QED
  BY <1>1, <1>2, <1>3, <1>4, <1>5, <1>6 DEF FreshInv

\* Cargo finds that it need not.
LEMMA SkipScriptKeeps ==
    ASSUME BuildInv, FreshInv, SkipScript
    PROVE  FreshInv'
<1>1. BuildTypeOK'
  BY BuildAssumption DEF FreshInv, BuildTypeOK, SkipScript, files, cargo, locals
<1>2. ReadInv'
  BY DEF ReadInv, SkipScript
<1>3. WrittenInv'
  BY DEF WrittenInv, SkipScript
<1>4. SucceededInv'
  BY DEF FreshInv, SucceededInv, SkipScript, files, cargo, At, LoadAt, SourceOf
<1>5. CargoInv'
  <2>1. /\ succeeded /\ tracked = Inputs(ran) /\ command \in Command /\ ran \in Command
        /\ command.platform = ran.platform /\ changed \cap tracked = {}
        /\ "env" \in tracked => command.payload = ran.payload
    BY DEF FreshInv, SucceededInv, BuildTypeOK, SkipScript, ScriptIsStale
  <2>2. command = ran
    BY <2>1 DEF Inputs, PayloadInputs, Command
  <2> QED
    BY <2>1, <2>2 DEF FreshInv, CargoInv, ScriptSteps, SkipScript, files, cargo
<1>6. ValidBuildSucceeds'
  BY DEF ValidBuildSucceeds, SkipScript
<1> QED
  BY <1>1, <1>2, <1>3, <1>4, <1>5, <1>6 DEF FreshInv

\* rustc and the linker.
LEMMA RustcKeeps ==
    ASSUME BuildInv, FreshInv, Rustc
    PROVE  FreshInv'
<1>1. BuildTypeOK'
  BY BuildAssumption DEF FreshInv, BuildTypeOK, Rustc, files, locals, Idle
<1>2. ReadInv'
  BY DEF ReadInv, Rustc
<1>3. WrittenInv'
  BY DEF WrittenInv, Rustc
<1>4. SucceededInv'
  BY DEF FreshInv, SucceededInv, Rustc, files, At, LoadAt, SourceOf
<1>5. CargoInv'
  BY DEF FreshInv, CargoInv, ScriptSteps, Rustc, files
<1>6. ValidBuildSucceeds'
  <2> SUFFICES ASSUME step' = "failed", ~moved, ValidPlatforms, ValidPayload
               PROVE  FALSE
    BY DEF Rustc, ValidBuildSucceeds, ValidPlatforms, ValidPayload, SourceOf, files
  <2>1. /\ ~compiled
        /\ ~(/\ out.rs.source \in sources
             /\ out.payload # None => /\ payload # None
                                      /\ payload.size = out.payload
                                      /\ out.payload <= PAYLOAD_SIZE_LIMIT)
    BY DEF Rustc
  <2>2. /\ succeeded /\ ran = command /\ changed \cap tracked = {} /\ tracked = Inputs(ran)
        /\ out.payload # None => ran.payload
    BY DEF Rustc, FreshInv, CargoInv, SucceededInv
  <2>3. out.rs.source \in sources
    BY <2>2 DEF FreshInv, SucceededInv, Inputs, ValidPlatforms
  <2>4. ran.payload => payload # None /\ out.payload = payload.size
    BY <2>2 DEF FreshInv, SucceededInv, Inputs, PayloadInputs
  <2> QED
    BY <2>1, <2>2, <2>3, <2>4 DEF ValidPayload
<1> QED
  BY <1>1, <1>2, <1>3, <1>4, <1>5, <1>6 DEF FreshInv

\* discover_platforms().
LEMMA DiscoverKeeps ==
    ASSUME BuildInv, FreshInv, Discover
    PROVE  FreshInv'
<1>1. BuildTypeOK'
  <2>1. 0 \in Address /\ discover_platforms \subseteq Names
    BY BuildAssumption DEF Address, discover_platforms
  <2> QED
    BY <2>1 DEF FreshInv, BuildTypeOK, Discover, Panics, Ends, Unset, files, cargo, Idle
<1>2. ReadInv'
  BY DEF ReadInv, Discover, Panics, files, cargo, discover_platforms
<1>3. WrittenInv'
  BY DEF WrittenInv, Discover, Panics
<1>4. SucceededInv'
  BY DEF SucceededInv, BuildInv, ScriptSteps, Discover
<1>5. CargoInv'
  BY DEF FreshInv, CargoInv, ScriptSteps, Discover, Panics, files, cargo
<1>6. ValidBuildSucceeds'
  <2>1. command.platform \in Names
    BY DEF FreshInv, BuildTypeOK, Command
  <2>2. step' = "failed" => conf[command.platform] = None
    BY <2>1 DEF Discover, discover_platforms
  <2> QED
    BY <2>2 DEF Discover, ValidBuildSucceeds, ValidPlatforms, files, cargo
<1> QED
  BY <1>1, <1>2, <1>3, <1>4, <1>5, <1>6 DEF FreshInv

\* platform_config and config_value: they give the two addresses exactly when
\* the file is there and valid, and then the ones it says.
LEMMA ConfigRead ==
    ASSUME BuildTypeOK, NEW p \in Names
    PROVE  LET config == platform_config(p)
               Found(key) == config_value(config, key)
               keys == {RITM_IMAGE_ADDRESS_KEY, PAYLOAD_ADDRESS_KEY}
           IN  /\ (config # None /\ \A key \in keys : Found(key) # None)
                      <=> (conf[p] # None /\ ValidConfig(conf[p]))
               /\ conf[p] # None /\ ValidConfig(conf[p]) =>
                      \A key \in keys : Found(key) \in Address /\ Found(key) = ValueOf(conf[p], key)
<1>1. CASE conf[p] = None
  BY <1>1 DEF platform_config
<1>2. CASE conf[p] # None
  <2>1. conf[p] \in Configs
    BY <1>2 DEF BuildTypeOK
  <2>2. platform_config(p) = parse_platform_config(conf[p])
    BY <1>2 DEF platform_config
  <2> QED
    BY <1>2, <2>1, <2>2, ParseExact
<1> QED
  BY <1>1, <1>2

\* platform_config() and config_value().
LEMMA PlatformConfigKeeps ==
    ASSUME BuildInv, FreshInv, PlatformConfig
    PROVE  FreshInv'
<1> DEFINE source == conf[command.platform]
<1>a. command.platform \in Names
  BY DEF FreshInv, BuildTypeOK, Command
<1>b. ASSUME source # None, ValidConfig(source)
      PROVE  BuildTypeOK' /\ ReadInv' /\ ValidBuildSucceeds'
  <2>1. /\ step' = "payload" /\ platforms' = platforms /\ out' = out
        /\ At(command) \in Address /\ LoadAt(command) \in Address
        /\ local' = [local EXCEPT !.image = At(command), !.payload_address = LoadAt(command)]
        /\ UNCHANGED <<files, cargo, tracked, succeeded>>
    BY <1>a, <1>b, ConfigRead DEF FreshInv, PlatformConfig, At, LoadAt
  <2> HIDE DEF source
  <2>2. local'.image = At(command) /\ local'.payload_address = LoadAt(command)
        /\ local'.payload = local.payload
    BY <2>1
  <2>3. BuildTypeOK'
    BY <2>1, <2>2 DEF FreshInv, BuildTypeOK, files, cargo
  <2>4. ReadInv'
    BY <1>b, <2>1, <2>2 DEF PlatformConfig, FreshInv, ReadInv, files, cargo, At, LoadAt, source,
       discover_platforms
  <2> QED
    BY <2>1, <2>3, <2>4 DEF ValidBuildSucceeds
<1>c. ASSUME ~(source # None /\ ValidConfig(source))
      PROVE  BuildTypeOK' /\ ReadInv' /\ ValidBuildSucceeds'
  <2>1. Panics /\ UNCHANGED <<files, cargo, tracked, succeeded>>
    BY <1>a, <1>c, ConfigRead DEF FreshInv, PlatformConfig
  <2>2. 0 \in Address
    BY BuildAssumption DEF Address
  <2>3. BuildTypeOK'
    BY <2>1, <2>2 DEF FreshInv, BuildTypeOK, Panics, Ends, Unset, files, cargo, Idle
  <2>4. ReadInv'
    BY <2>1 DEF ReadInv, Panics
  <2>5. ValidBuildSucceeds'
    BY <1>c, <2>1 DEF ValidBuildSucceeds, ValidPlatforms, files, cargo
  <2> QED
    BY <2>3, <2>4, <2>5
<1>1. BuildTypeOK'
  BY <1>b, <1>c
<1>2. ReadInv'
  BY <1>b, <1>c
<1>3. WrittenInv'
  BY DEF WrittenInv, PlatformConfig, Panics
<1>4. SucceededInv'
  BY DEF SucceededInv, BuildInv, ScriptSteps, PlatformConfig
<1>5. CargoInv'
  BY DEF FreshInv, CargoInv, ScriptSteps, PlatformConfig, Panics, files, cargo
<1>6. ValidBuildSucceeds'
  BY <1>b, <1>c
<1> QED
  BY <1>1, <1>2, <1>3, <1>4, <1>5, <1>6 DEF FreshInv

\* A payload within the limit is accepted: the limit is itself a multiple of
\* the section's alignment.
LEMMA SmallPayloadAccepted ==
    ASSUME NEW n \in Nat, n <= PAYLOAD_SIZE_LIMIT
    PROVE  PayloadAccepted(n)
<1>1. PAYLOAD_SIZE_LIMIT \in Nat /\ PAYLOAD_SIZE_LIMIT % 4 = 0
  BY BuildAssumption DEF PAYLOAD_SECTION_ALIGNMENT
<1> QED
  BY <1>1 DEF PayloadAccepted, next_multiple_of, PAYLOAD_SECTION_ALIGNMENT

\* payload_config().
LEMMA payload_configKeeps ==
    ASSUME BuildInv, FreshInv, payload_config
    PROVE  FreshInv'
<1> DEFINE Ready == command.payload => payload # None /\ PayloadAccepted(payload.size)
           size == IF command.payload THEN payload.size ELSE None
<1>a. /\ command.payload \in BOOLEAN /\ payload \in Payloads \cup {None}
      /\ payload # None => payload.size \in Nat /\ None # payload.size
  BY BuildAssumption DEF FreshInv, BuildTypeOK, Command, Payload
<1>b. ASSUME Ready
      PROVE  BuildTypeOK' /\ ReadInv' /\ ValidBuildSucceeds'
  <2>1. /\ step' = "write_ld" /\ platforms' = platforms /\ out' = out
        /\ tracked' = tracked \cup PayloadInputs(command.payload)
        /\ local' = [local EXCEPT !.payload = size]
        /\ UNCHANGED <<files, cargo, succeeded>>
    BY <1>b DEF payload_config
  <2>2. /\ local'.image = local.image /\ local'.payload_address = local.payload_address
        /\ local'.payload = size
    BY <2>1
  <2>3. size \in {p.size : p \in Payloads} \cup {None} /\ (size # None <=> command.payload)
    BY <1>a, <1>b
  <2> HIDE DEF Ready, size
  <2>4. BuildTypeOK'
    BY <2>1, <2>2, <2>3 DEF FreshInv, BuildTypeOK, files, cargo, PayloadInputs
  <2>5. /\ tracked = {"platforms", "sources"} /\ tracked' = Inputs(command)
        /\ command.payload => payload # None /\ size = payload.size
    BY <1>b, <2>1 DEF payload_config, FreshInv, ReadInv, Inputs, Ready, size
  <2>6. ReadInv'
    BY <2>1, <2>2, <2>3, <2>5 DEF payload_config, FreshInv, ReadInv, files, cargo, At, LoadAt,
       discover_platforms
  <2> QED
    BY <2>1, <2>4, <2>6 DEF ValidBuildSucceeds
<1>c. ASSUME ~Ready
      PROVE  BuildTypeOK' /\ ReadInv' /\ ValidBuildSucceeds'
  <2>1. /\ Panics /\ UNCHANGED <<files, cargo, succeeded>>
        /\ tracked' = tracked \cup PayloadInputs(command.payload)
    BY <1>c DEF payload_config
  <2>2. 0 \in Address
    BY BuildAssumption DEF Address
  <2>3. ~ValidPayload
    BY <1>a, <1>c, SmallPayloadAccepted DEF ValidPayload
  <2> HIDE DEF Ready, size
  <2>4. BuildTypeOK'
    BY <2>1, <2>2 DEF FreshInv, BuildTypeOK, Panics, Ends, Unset, files, cargo, Idle,
       PayloadInputs
  <2>5. ReadInv'
    BY <2>1 DEF ReadInv, Panics
  <2>6. ValidBuildSucceeds'
    BY <2>1, <2>3 DEF ValidBuildSucceeds, ValidPayload, files, cargo
  <2> QED
    BY <2>4, <2>5, <2>6
<1>1. BuildTypeOK'
  BY <1>b, <1>c
<1>2. ReadInv'
  BY <1>b, <1>c
<1>3. WrittenInv'
  BY DEF WrittenInv, payload_config, Panics
<1>4. SucceededInv'
  BY DEF SucceededInv, BuildInv, ScriptSteps, payload_config
<1>5. CargoInv'
  BY DEF FreshInv, CargoInv, ScriptSteps, payload_config, Panics, files, cargo
<1>6. ValidBuildSucceeds'
  BY <1>b, <1>c
<1> QED
  BY <1>1, <1>2, <1>3, <1>4, <1>5, <1>6 DEF FreshInv

\* The linker script is written.
LEMMA WriteLinkerScriptKeeps ==
    ASSUME BuildInv, FreshInv, WriteLinkerScript
    PROVE  FreshInv'
<1>1. BuildTypeOK'
  BY BuildAssumption DEF FreshInv, BuildTypeOK, WriteLinkerScript, files, cargo, locals
<1>2. ReadInv'
  BY DEF FreshInv, ReadInv, WriteLinkerScript, files, cargo, locals, At, LoadAt,
     discover_platforms
<1>3. WrittenInv'
  BY DEF WrittenInv, WriteLinkerScript, locals, linker_script
<1>4. SucceededInv'
  BY DEF SucceededInv, BuildInv, ScriptSteps, WriteLinkerScript
<1>5. CargoInv'
  BY DEF FreshInv, CargoInv, ScriptSteps, WriteLinkerScript, files, cargo
<1>6. ValidBuildSucceeds'
  BY DEF ValidBuildSucceeds, WriteLinkerScript
<1> QED
  BY <1>1, <1>2, <1>3, <1>4, <1>5, <1>6 DEF FreshInv

\* The platform module is written.
LEMMA WriteModuleKeeps ==
    ASSUME BuildInv, FreshInv, WriteModule
    PROVE  FreshInv'
<1> DEFINE Found == \A p \in platforms : platform_source_path(p) # None
<1>a. /\ Found => /\ step' = "write_payload" /\ UNCHANGED locals
                  /\ out' = [out EXCEPT !.rs = platform_module_source]
      /\ ~Found => Panics
      /\ UNCHANGED <<files, cargo, tracked, succeeded>> /\ step = "write_rs"
  BY DEF WriteModule
<1>b. command.platform \in Names /\ command.platform \in platforms /\ platforms \subseteq Names
  BY <1>a DEF FreshInv, BuildTypeOK, ReadInv
<1>c. \A p \in Names : /\ platform_source_path(p) # None => platform_source_path(p) = SourceOf(p)
                       /\ p \in sources \cup {qemu_bl33} => platform_source_path(p) # None
  BY BuildAssumption DEF platform_source_path, SourceOf
<1> HIDE DEF Found
<1>1. BuildTypeOK'
  <2>1. 0 \in Address
    BY BuildAssumption DEF Address
  <2>2. CASE Found
    BY <1>a, <2>2 DEF FreshInv, BuildTypeOK, files, cargo, locals
  <2>3. CASE ~Found
    BY <1>a, <2>1, <2>3 DEF FreshInv, BuildTypeOK, Panics, Ends, Unset, files, cargo, Idle
  <2> QED
    BY <2>2, <2>3
<1>2. ReadInv'
  BY DEF FreshInv, ReadInv, WriteModule, Panics, files, cargo, locals, At, LoadAt,
     discover_platforms
<1>3. WrittenInv'
  <2>1. CASE Found
    <3>1. /\ out'.ld = out.ld /\ out'.rs = platform_module_source
          /\ local' = local /\ command' = command /\ sources' = sources
      BY <1>a, <2>1 DEF BuildInv, locals, files, cargo
    <3>2. platform_source_path(command.platform) = SourceOf(command.platform)
      BY <1>b, <1>c, <2>1 DEF Found
    <3>3. out.ld = linker_script
      BY <1>a DEF FreshInv, WrittenInv
    <3> QED
      BY <1>a, <2>1, <3>1, <3>2, <3>3 DEF WrittenInv, linker_script, platform_module_source,
         SourceOf
  <2>2. CASE ~Found
    BY <1>a, <2>2 DEF WrittenInv, Panics
  <2> QED
    BY <2>1, <2>2
<1>4. SucceededInv'
  BY DEF SucceededInv, BuildInv, ScriptSteps, WriteModule
<1>5. CargoInv'
  BY DEF FreshInv, CargoInv, ScriptSteps, WriteModule, Panics, files, cargo
<1>6. ValidBuildSucceeds'
  <2> SUFFICES ASSUME step' = "failed", ~moved, ValidPlatforms
               PROVE  FALSE
    BY <1>a DEF ValidBuildSucceeds, ValidPlatforms, SourceOf, files, cargo
  <2>1. ~Found
    BY <1>a
  <2>2. changed = {} /\ platforms = discover_platforms
    BY <1>a DEF FreshInv, CargoInv, ReadInv, ScriptSteps
  <2>3. \A p \in platforms : platform_source_path(p) # None
    BY <1>c, <2>2 DEF ValidPlatforms, discover_platforms
  <2> QED
    BY <2>1, <2>3 DEF Found
<1> QED
  BY <1>1, <1>2, <1>3, <1>4, <1>5, <1>6 DEF FreshInv

\* The payload source is written, and the script ends.
LEMMA WritePayloadKeeps ==
    ASSUME BuildInv, FreshInv, WritePayload
    PROVE  FreshInv'
<1>1. BuildTypeOK'
  <2>1. 0 \in Address
    BY BuildAssumption DEF Address
  <2> QED
    BY <2>1 DEF FreshInv, BuildTypeOK, WritePayload, Ends, Unset, files, cargo
<1>2. ReadInv'
  BY DEF ReadInv, WritePayload
<1>3. WrittenInv'
  BY DEF WrittenInv, WritePayload
<1>4. SucceededInv'
  <2>1. /\ out'.ld = out.ld /\ out'.rs = out.rs /\ out'.payload = local.payload
        /\ UNCHANGED <<files, cargo, tracked>> /\ step = "write_payload"
    BY DEF WritePayload, payload_source_code
  <2>2. /\ ran = command /\ out.ld = linker_script
        /\ out.rs = [image |-> local.image, payload_address |-> local.payload_address,
                     source |-> out.rs.source]
        /\ "sources" \notin changed => out.rs.source = SourceOf(command.platform)
    BY <2>1 DEF FreshInv, CargoInv, WrittenInv, ScriptSteps
  <2>3. /\ tracked = Inputs(command) /\ (local.payload # None <=> command.payload)
        /\ command.payload /\ "payload" \notin changed =>
               payload # None /\ local.payload = payload.size
        /\ "platforms" \notin changed =>
               /\ conf[command.platform] # None /\ ValidConfig(conf[command.platform])
               /\ local.image = At(command) /\ local.payload_address = LoadAt(command)
    BY <2>1 DEF FreshInv, ReadInv
  <2>4. out.ld = [image |-> local.image,
                  payload |-> IF command.payload THEN local.payload_address ELSE None]
    BY <2>2, <2>3 DEF linker_script
  <2> QED
    BY <2>1, <2>2, <2>3, <2>4 DEF SucceededInv, At, LoadAt, SourceOf, files, cargo
<1>5. CargoInv'
  BY DEF FreshInv, CargoInv, ScriptSteps, WritePayload, files, cargo
<1>6. ValidBuildSucceeds'
  BY DEF ValidBuildSucceeds, WritePayload
<1> QED
  BY <1>1, <1>2, <1>3, <1>4, <1>5, <1>6 DEF FreshInv

\* The invariant holds of every build, whatever changes in between.
LEMMA FreshInvariant == BuildSpec => []FreshInv
<1>1. BuildInit => FreshInv
  <2>1. 0 \in Address /\ qemu \in Names /\ MAX_EDITS \in 0 .. MAX_EDITS
    BY BuildAssumption DEF Address
  <2>2. BuildInit => BuildTypeOK
    <3> SUFFICES ASSUME BuildInit
                 PROVE  BuildTypeOK
      OBVIOUS
    <3>1. /\ conf \in [Names -> Configs \cup {None}] /\ sources \subseteq Names
          /\ payload \in Payloads \cup {None} /\ edits \in 0 .. MAX_EDITS
      BY <2>1, BuildAssumption DEF BuildInit
    <3>2. command \in Command /\ ran \in Command
      BY <2>1 DEF BuildInit, Command
    <3> QED
      BY <2>1, <3>1, <3>2 DEF BuildInit, Unset, BuildTypeOK, Idle
  <2>3. BuildInit => ReadInv /\ WrittenInv /\ SucceededInv /\ CargoInv /\ ValidBuildSucceeds
    BY DEF BuildInit, ReadInv, WrittenInv, SucceededInv, CargoInv, ScriptSteps,
           ValidBuildSucceeds
  <2> QED
    BY <2>2, <2>3 DEF FreshInv
<1>2. BuildInv /\ FreshInv /\ [BuildNext]_buildvars => FreshInv'
  <2>1. BuildInv /\ FreshInv /\ UNCHANGED buildvars => FreshInv'
    <3> SUFFICES ASSUME FreshInv, UNCHANGED buildvars
                 PROVE  FreshInv'
      OBVIOUS
    <3> USE DEF buildvars, files, cargo, locals
    <3>1. BuildTypeOK'
      BY DEF FreshInv, BuildTypeOK
    <3>2. ReadInv'
      BY DEF FreshInv, ReadInv, At, LoadAt, Inputs, discover_platforms
    <3>3. WrittenInv'
      BY DEF FreshInv, WrittenInv, SourceOf, linker_script
    <3>4. SucceededInv'
      BY DEF FreshInv, SucceededInv, At, LoadAt, Inputs, SourceOf
    <3>5. CargoInv'
      BY DEF FreshInv, CargoInv
    <3>6. ValidBuildSucceeds'
      BY DEF FreshInv, ValidBuildSucceeds, ValidPlatforms, ValidPayload, SourceOf
    <3> QED
      BY <3>1, <3>2, <3>3, <3>4, <3>5, <3>6 DEF FreshInv
  <2>2. BuildInv /\ FreshInv /\ Edit => FreshInv'
    BY EditConfigKeeps, EditSourcesKeeps, EditPayloadKeeps DEF Edit
  <2>3. BuildInv /\ FreshInv /\ BuildScript => FreshInv'
    BY DiscoverKeeps, PlatformConfigKeeps, payload_configKeeps, WriteLinkerScriptKeeps,
       WriteModuleKeeps, WritePayloadKeeps DEF BuildScript
  <2> QED
    BY <2>1, <2>2, <2>3, CargoBuildKeeps, RunScriptKeeps, SkipScriptKeeps, RustcKeeps
       DEF BuildNext, Cargo
<1> QED
  BY <1>1, <1>2, BuildInvariant, PTL DEF BuildSpec

(***************************************************************************)
(* Every variable of a build keeps its type, the addresses that             *)
(* config_value returns fit the machine word, for any configuration files. *)
(***************************************************************************)
THEOREM BuildTypeCorrect == BuildSpec => []BuildTypeOK
<1>1. FreshInv => BuildTypeOK
  BY DEF FreshInv
<1> QED
  BY <1>1, FreshInvariant, PTL

(***************************************************************************)
(* Cargo never reports success for an image made of anything but the files *)
(* as they are: the inputs that build.rs names to cargo are all the inputs *)
(* its outputs depend on, so a script that is skipped, after any builds    *)
(* and changes, would have written what OUT_DIR already holds.             *)
(***************************************************************************)
THEOREM BuildsAreFresh == BuildSpec => []ImageIsFresh
<1>1. FreshInv => ImageIsFresh
  <2> SUFFICES ASSUME FreshInv, step = "built", ~moved
               PROVE  ImageIsFresh
    BY DEF ImageIsFresh
  <2>1. /\ succeeded /\ ran = command /\ changed \cap tracked = {} /\ tracked = Inputs(ran)
        /\ image = [ld |-> out.ld, rs |-> out.rs,
                    payload |-> IF out.payload = None THEN None ELSE payload]
    BY DEF FreshInv, CargoInv, SucceededInv
  <2>2. "platforms" \notin changed /\ "sources" \notin changed
    BY <2>1 DEF Inputs
  <2>3. /\ ValidConfig(conf[command.platform])
        /\ out.ld = [image |-> At(command),
                     payload |-> IF command.payload THEN LoadAt(command) ELSE None]
        /\ out.rs = [image |-> At(command), payload_address |-> LoadAt(command),
                     source |-> SourceOf(command.platform)]
        /\ out.payload # None <=> command.payload
    BY <2>1, <2>2 DEF FreshInv, SucceededInv
  <2> QED
    BY <2>1, <2>3 DEF ImageIsFresh, At, LoadAt
<1> QED
  BY <1>1, FreshInvariant, PTL

(***************************************************************************)
(* A build that is left alone fails only for a fault of its own inputs,    *)
(* for any platforms, configurations and payloads: nothing an earlier      *)
(* build left in OUT_DIR or told cargo makes a valid one fail.             *)
(***************************************************************************)
THEOREM ValidBuildsSucceed == BuildSpec => []ValidBuildSucceeds
<1>1. FreshInv => ValidBuildSucceeds
  BY DEF FreshInv
<1> QED
  BY <1>1, FreshInvariant, PTL

=============================================================================
