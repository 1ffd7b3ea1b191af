--------------------------- MODULE PlatformBuild ---------------------------
(***************************************************************************)
(* The build script (build.rs and build_support/platform_config.rs): from  *)
(* the platform configurations, the platform sources and the payload it    *)
(* makes a linker script, a platform module and a payload source, which    *)
(* rustc and the linker turn into an image.  Files change under it, at any *)
(* time; cargo runs it again when an input it has named changes.           *)
(*                                                                         *)
(* A configuration is a sequence of lines, what a line says is a record.   *)
(* Cargo, rustc and the linker are external.                               *)
(***************************************************************************)
EXTENDS Integers, Sequences

CONSTANTS
    Names,      \* the platforms there may be
    qemu, qemu_bl33,
    Configs,    \* the contents a configuration file may have
    Payloads,   \* the payload files there may be
    SHIPPED,    \* the configurations of the repository
    None,
    WORD,       \* bound: integers are u64 in the code
    PAYLOAD_SIZE_LIMIT,
    MAX_EDITS   \* bound: how often files change

PAYLOAD_SECTION_ALIGNMENT == 4
RITM_IMAGE_ADDRESS_KEY == "ritm_image_address"
PAYLOAD_ADDRESS_KEY == "payload_address"

\* A line without '=', with nothing but a comment, or with a key (empty or not)
\* and a number whose digits may be invalid.
Line == [kind : {"comment", "no_equals"}]
        \cup [kind : {"pair"}, key : STRING, digits : BOOLEAN, number : Nat]
Payload == [size : Nat, data : Nat]

\* The keys that occur, and what a configuration file may parse to.
Keys == UNION {{source[i].key : i \in {j \in DOMAIN source : source[j].kind = "pair"}} :
               source \in Configs}
Address == 0 .. WORD - 1
Config == UNION {[K -> Address] : K \in SUBSET Keys}

ASSUME BuildAssumption ==
    /\ qemu \in Names /\ qemu_bl33 \in Names
    /\ Configs \subseteq Seq(Line)
    /\ SHIPPED \in [Names -> Configs \cup {None}]
    /\ Payloads \subseteq Payload
    /\ None \notin Names /\ None \notin Configs /\ None \notin Config
    /\ None \notin Payloads /\ None \notin Nat
    /\ WORD \in Nat \ {0} /\ MAX_EDITS \in Nat
    /\ PAYLOAD_SIZE_LIMIT \in Nat
    /\ PAYLOAD_SIZE_LIMIT % PAYLOAD_SECTION_ALIGNMENT = 0

VARIABLES
    conf,       \* the configuration file of each platform, None if missing
    sources,    \* the platforms with a source file of their own
    payload,    \* the file that RITM_PAYLOAD names, None if missing
    edits,      \* how often files may still change
    moved,      \* has a file changed since cargo build was called?
    step,       \* where cargo build is
    command,    \* its platform, and whether RITM_PAYLOAD is set
    platforms,  \* local of main: the platforms discovered
    local,      \* locals of main: the two addresses and the payload's size
    tracked,    \* the inputs the script's last run has told cargo about
    ran,        \* the command of that run
    succeeded,  \* did it succeed?
    changed,    \* the inputs that changed since it started
    out,        \* OUT_DIR: platform.ld, platform.rs and payload.rs
    compiled,   \* is the image made from OUT_DIR and the payload as they are?
    image       \* the image

files == <<conf, sources, payload, edits, moved>>
cargo == <<command, ran, changed, compiled, image>>
locals == <<platforms, local>>
buildvars == <<files, step, cargo, locals, tracked, succeeded, out>>

Idle == {"idle", "built", "failed"}
Command == [platform : Names, payload : BOOLEAN]

(***************************************************************************)
(* Every variable has its type; the addresses fit the machine word.        *)
(***************************************************************************)
BuildTypeOK ==
    /\ conf \in [Names -> Configs \cup {None}]
    /\ sources \subseteq Names
    /\ payload \in Payloads \cup {None}
    /\ edits \in 0 .. MAX_EDITS
    /\ moved \in BOOLEAN
    /\ step \in Idle \cup {"cargo", "discover", "config", "payload",
                           "write_ld", "write_rs", "write_payload", "rustc"}
    /\ command \in Command
    /\ platforms \subseteq Names
    /\ local.image \in Address /\ local.payload_address \in Address
    /\ local.payload \in {p.size : p \in Payloads} \cup {None}
    /\ tracked \subseteq {"platforms", "sources", "env", "payload"}
    /\ ran \in Command
    /\ succeeded \in BOOLEAN
    /\ changed \subseteq {"platforms", "sources", "payload"}
    /\ DOMAIN out = {"ld", "rs", "payload"}
    /\ compiled \in BOOLEAN

----------------------------------------------------------------------------
\* build_support/platform_config.rs

parse_int_unbounded(line) == IF line.digits THEN line.number ELSE None

\* What a number in hexadecimal or decimal, with underscores, parses to.
parse_int(line) == IF line.digits /\ line.number < WORD THEN line.number ELSE None

\* HashMap::insert: the later value of a key replaces the earlier one.
HashMapInsert(config, key, value) ==
    [k \in DOMAIN config \cup {key} |-> IF k = key THEN value ELSE config[k]]

\* One iteration; None is an error, which ends the loop.
ParseLine(config, line) ==
    IF config = None \/ line.kind = "comment" THEN config
    ELSE IF line.kind = "no_equals" \/ line.key = "" \/ parse_int(line) = None THEN None
    ELSE HashMapInsert(config, line.key, parse_int(line))

parse_platform_config(source) ==
    LET parsed[i \in 0 .. Len(source)] ==
            IF i = 0 THEN <<>> ELSE ParseLine(parsed[i - 1], source[i])
    IN  parsed[Len(source)]

\* A file that cannot be read, or parsed, is a panic.
platform_config(p) == IF conf[p] = None THEN None ELSE parse_platform_config(conf[p])

----------------------------------------------------------------------------
\* build.rs: the functions of main.

\* None where the script panics.
config_value(config, key) == IF key \in DOMAIN config THEN config[key] ELSE None

discover_platforms == {p \in Names : conf[p] # None}

next_multiple_of(n, m) == ((n + m - 1) \div m) * m

PayloadRoundedDown(size) ==
    (size \div PAYLOAD_SECTION_ALIGNMENT) * PAYLOAD_SECTION_ALIGNMENT <= PAYLOAD_SIZE_LIMIT

\* The assert of payload_config.
PayloadAccepted(size) ==
    next_multiple_of(size, PAYLOAD_SECTION_ALIGNMENT) <= PAYLOAD_SIZE_LIMIT

PayloadInputsLate(set) == IF set THEN {"env", "payload"} ELSE {}

PayloadInputsEnv(set) == {"env"}

\* The inputs payload_config names: RITM_PAYLOAD before it looks at its value,
\* the payload when there is one.
PayloadInputs(set) == {"env"} \cup (IF set THEN {"payload"} ELSE {})

\* The payload region and section are there with a payload only.
linker_script ==
    [image |-> local.image,
     payload |-> IF local.payload = None THEN None ELSE local.payload_address]

\* The source file of a platform, None where the script panics.
platform_source_path(p) ==
    IF p \in sources THEN p ELSE IF p = qemu_bl33 THEN qemu ELSE None

\* The module of every platform is declared; the command selects one.
platform_module_source ==
    [image |-> local.image, payload_address |-> local.payload_address,
     source |-> platform_source_path(command.platform)]

\* The embedded array has the size that payload_config has seen.
payload_source_code == local.payload

----------------------------------------------------------------------------
\* The files, and what cargo does before and after the script (external).

Unset == [image |-> 0, payload_address |-> 0, payload |-> None]

BuildInit ==
    /\ conf = SHIPPED
    /\ sources = {qemu}
    /\ payload = None
    /\ edits = MAX_EDITS
    /\ moved = FALSE
    /\ step = "idle"
    /\ command = [platform |-> qemu, payload |-> FALSE]
    /\ platforms = {}
    /\ local = Unset
    /\ tracked = {}
    /\ ran = command
    /\ succeeded = FALSE
    /\ changed = {}
    /\ out = [ld |-> None, rs |-> None, payload |-> None]
    /\ compiled = FALSE
    /\ image = None

Edited(input) ==
    /\ edits > 0
    /\ edits' = edits - 1
    /\ moved' = TRUE
    /\ changed' = changed \cup {input}
    /\ UNCHANGED <<step, command, ran, image, locals, tracked, succeeded, out>>

EditConfig(p, new) ==
    /\ conf' = [conf EXCEPT ![p] = new]
    /\ Edited("platforms")
    /\ UNCHANGED <<sources, payload, compiled>>

EditSources(p) ==
    /\ sources' = IF p \in sources THEN sources \ {p} ELSE sources \cup {p}
    /\ Edited("sources")
    /\ UNCHANGED <<conf, payload, compiled>>

\* rustc has noted the file that include_bytes! names.
EditPayload(new) ==
    /\ payload' = new
    /\ compiled' = (compiled /\ out.payload = None)
    /\ Edited("payload")
    /\ UNCHANGED <<conf, sources>>

CargoBuild(c) ==
    /\ step \in Idle
    /\ command' = c
    /\ step' = "cargo"
    /\ moved' = FALSE
    /\ UNCHANGED <<conf, sources, payload, edits, ran, changed, compiled, image,
                   locals, tracked, succeeded, out>>

\* The script runs when it has not succeeded for this platform, or when an
\* input it has named is another one.
ScriptIsStale ==
    \/ ~succeeded
    \/ command.platform # ran.platform
    \/ changed \cap tracked # {}
    \/ "env" \in tracked /\ command.payload # ran.payload

RunScript ==
    /\ step = "cargo"
    /\ ScriptIsStale
    /\ step' = "discover"
    /\ ran' = command
    /\ changed' = {}
    /\ compiled' = FALSE
    /\ succeeded' = FALSE
    /\ UNCHANGED <<files, command, image, locals, tracked, out>>

SkipScript ==
    /\ step = "cargo"
    /\ ~ScriptIsStale
    /\ step' = "rustc"
    /\ UNCHANGED <<files, cargo, locals, tracked, succeeded, out>>

\* rustc and the linker run when OUT_DIR or the payload is new.  The array of
\* payload.rs takes a file of its own size only; the section has to fit the
\* region.
Rustc ==
    /\ step = "rustc"
    /\ IF compiled THEN step' = "built" /\ UNCHANGED <<compiled, image>>
       ELSE IF /\ out.rs.source \in sources
               /\ out.payload # None => /\ payload # None
                                        /\ payload.size = out.payload
                                        /\ out.payload <= PAYLOAD_SIZE_LIMIT
       THEN /\ step' = "built"
            /\ compiled' = TRUE
            /\ image' = [ld |-> out.ld, rs |-> out.rs,
                         payload |-> IF out.payload = None THEN None ELSE payload]
       ELSE step' = "failed" /\ UNCHANGED <<compiled, image>>
    /\ UNCHANGED <<files, command, ran, changed, locals, tracked, succeeded, out>>

----------------------------------------------------------------------------
\* build.rs: main.  Each step reads its files when it gets there.

\* The script ends and its locals with it; what it has written stays.
Ends == platforms' = {} /\ local' = Unset

Panics == step' = "failed" /\ Ends /\ UNCHANGED out

\* discover_platforms, and the assert on the platform asked for.
Discover ==
    /\ step = "discover"
    /\ tracked' = {"platforms", "sources"}
    /\ IF command.platform \in discover_platforms
       THEN /\ platforms' = discover_platforms
            /\ step' = "config"
            /\ UNCHANGED <<local, out>>
       ELSE Panics
    /\ UNCHANGED <<files, cargo, succeeded>>

\* platform_config and the two calls of config_value.
PlatformConfig ==
    /\ step = "config"
    /\ \E config \in {platform_config(command.platform)} :
         IF /\ config # None
            /\ config_value(config, RITM_IMAGE_ADDRESS_KEY) # None
            /\ config_value(config, PAYLOAD_ADDRESS_KEY) # None
         THEN /\ local' = [local EXCEPT
                            !.image = config_value(config, RITM_IMAGE_ADDRESS_KEY),
                            !.payload_address = config_value(config, PAYLOAD_ADDRESS_KEY)]
              /\ step' = "payload"
              /\ UNCHANGED <<platforms, out>>
         ELSE Panics
    /\ UNCHANGED <<files, cargo, tracked, succeeded>>

payload_config ==
    /\ step = "payload"
    /\ tracked' = tracked \cup PayloadInputs(command.payload)
    /\ IF command.payload => payload # None /\ PayloadAccepted(payload.size)
       THEN /\ local' = [local EXCEPT !.payload = IF command.payload THEN payload.size ELSE None]
            /\ step' = "write_ld"
            /\ UNCHANGED <<platforms, out>>
       ELSE Panics
    /\ UNCHANGED <<files, cargo, succeeded>>

WriteLinkerScript ==
    /\ step = "write_ld"
    /\ out' = [out EXCEPT !.ld = linker_script]
    /\ step' = "write_rs"
    /\ UNCHANGED <<files, cargo, locals, tracked, succeeded>>

\* Every platform discovered needs a source, the one asked for or not.
WriteModule ==
    /\ step = "write_rs"
    /\ IF \A p \in platforms : platform_source_path(p) # None
       THEN /\ out' = [out EXCEPT !.rs = platform_module_source]
            /\ step' = "write_payload"
            /\ UNCHANGED locals
       ELSE Panics
    /\ UNCHANGED <<files, cargo, tracked, succeeded>>

WritePayload ==
    /\ step = "write_payload"
    /\ out' = [out EXCEPT !.payload = payload_source_code]
    /\ step' = "rustc"
    /\ succeeded' = TRUE
    /\ Ends
    /\ UNCHANGED <<files, cargo, tracked>>

BuildScript ==
    \/ Discover
    \/ PlatformConfig
    \/ payload_config
    \/ WriteLinkerScript
    \/ WriteModule
    \/ WritePayload

Cargo == RunScript \/ SkipScript \/ BuildScript \/ Rustc

Edit ==
    \/ \E p \in Names, new \in Configs \cup {None} : EditConfig(p, new)
    \/ \E p \in Names : EditSources(p)
    \/ \E new \in Payloads \cup {None} : EditPayload(new)

BuildNext == Cargo \/ Edit \/ \E c \in Command : CargoBuild(c)

BuildSpec == BuildInit /\ [][BuildNext]_buildvars

----------------------------------------------------------------------------
\* What the inputs say, without the order in which the script reads them.

Says(source, i, key) == source[i].kind = "pair" /\ source[i].key = key

\* The value of a key is that of its last line.
ValueOf(source, key) ==
    source[CHOOSE i \in 1 .. Len(source) :
             Says(source, i, key) /\ \A j \in i + 1 .. Len(source) : ~Says(source, j, key)].number

Sound(line) == line.kind = "pair" => line.key # "" /\ line.digits /\ line.number < WORD

ValidLines(source, keys) ==
    /\ \A i \in 1 .. Len(source) : source[i].kind # "no_equals" /\ Sound(source[i])
    /\ \A key \in keys : \E i \in 1 .. Len(source) : Says(source, i, key)

ValidConfig(source) == ValidLines(source, {RITM_IMAGE_ADDRESS_KEY, PAYLOAD_ADDRESS_KEY})

SourceOf(p) == IF p = qemu_bl33 /\ p \notin sources THEN qemu ELSE p

ValidPlatforms ==
    /\ conf[command.platform] # None
    /\ \A p \in Names : conf[p] # None => p \in sources \cup {qemu_bl33}
    /\ SourceOf(command.platform) \in sources

ValidPayload == command.payload => payload # None /\ payload.size <= PAYLOAD_SIZE_LIMIT

(***************************************************************************)
(* The image is made of the files as they are: a cargo build that reports  *)
(* success while no file changed has the addresses of the configuration,   *)
(* the same in the linker script and in the code, the platform's source    *)
(* and, exactly when RITM_PAYLOAD is set, the payload as it is at the      *)
(* configured address.  No earlier build, failed or of another platform,   *)
(* shows.                                                                  *)
(***************************************************************************)
ImageIsFresh ==
    step = "built" /\ ~moved =>
        LET source == conf[command.platform]
            at == ValueOf(source, RITM_IMAGE_ADDRESS_KEY)
            load == ValueOf(source, PAYLOAD_ADDRESS_KEY)
        IN  /\ ValidConfig(source)
            /\ image = [ld |-> [image |-> at, payload |-> IF command.payload THEN load ELSE None],
                        rs |-> [image |-> at, payload_address |-> load,
                                source |-> SourceOf(command.platform)],
                        payload |-> IF command.payload THEN payload ELSE None]

\* A linker script, a platform module and a payload of some size that belong
\* together: one image address, a payload region exactly when there is a
\* payload, at the address the code jumps to, and large enough for the section.
FitTogether(ld, rs, size) ==
    /\ ld.image = rs.image
    /\ ld.payload = IF size = None THEN None ELSE rs.payload_address
    /\ size # None =>
          \E n \in 0 .. PAYLOAD_SIZE_LIMIT :
              n % PAYLOAD_SECTION_ALIGNMENT = 0 /\ size <= n

(***************************************************************************)
(* Whatever changes while the script or rustc runs, the three outputs of a *)
(* script that succeeded fit together, and so do the parts of every image: *)
(* a payload that was replaced between the size check of payload_config    *)
(* and its inclusion is in the image only if it has the size checked.      *)
(***************************************************************************)
OutputsAgree ==
    /\ succeeded => FitTogether(out.ld, out.rs, out.payload)
    /\ image # None =>
          FitTogether(image.ld, image.rs,
                      IF image.payload = None THEN None ELSE image.payload.size)

(***************************************************************************)
(* A build that is left alone fails only when its inputs are at fault: a   *)
(* platform without configuration or source, a configuration that does not *)
(* parse or lacks an address, or a payload that is missing or too large.   *)
(* What earlier builds left behind never makes a valid build fail.         *)
(***************************************************************************)
ValidBuildSucceeds ==
    step = "failed" /\ ~moved =>
        ~(ValidPlatforms /\ ValidConfig(conf[command.platform]) /\ ValidPayload)

(***************************************************************************)
(* The README's account of payload_address, "If the platform should        *)
(* support embedding a payload into the RITM binary, set payload_address   *)
(* in the config file": a build without a payload does not fail for want   *)
(* of that address.                                                        *)
(***************************************************************************)
AddressOnlyForPayload ==
    step = "failed" /\ ~moved /\ ~command.payload =>
        ~(ValidPlatforms /\ ValidLines(conf[command.platform], {RITM_IMAGE_ADDRESS_KEY}))

=============================================================================
