------------------------------- MODULE Server -------------------------------
(***************************************************************************)
(* The server from its configuration file to its answers (main.go;         *)
(* core/signal.go: NewApp, Handler and the way into the handlers).         *)
(* Configuration has the rules; Signaling goes on where a page is let in.  *)
(***************************************************************************)
EXTENDS Configuration

CONSTANTS Files,    \* the configurations config.json may hold
          Generated \* those written by configure.py

ASSUME FilesAreConfigs == Files \subseteq Config /\ Generated \subseteq Files
ASSUME GeneratedByConfigure == Generated \subseteq {Configure(a) : a \in Answers}

VARIABLES file,   \* config.json as text: an object of known fields, or what else
          cfg,    \* the configuration in it
          process,  \* where main is
          trusted, \* how many networks NewApp made of the listed proxies
          answer  \* to the last request

mainVars == <<file, cfg, process, trusted, answer>>

File == {"object", "missing", "malformed", "unknownField", "trailingData"}
ProcessStage == {"start", "loaded", "exited", "validated", "plain", "tls", "crashed"}
Serving == process \in {"plain", "tls"}

NoIce == [policy |-> "unset", servers |-> {}]
Answer(status, rooms, ice) == [status |-> status, rooms |-> rooms, ice |-> ice]
Nothing == Answer("none", {}, NoIce)

\* What config.json holds; one that is not an object of known fields is an edited
\* or damaged one of configure.py's.
Stored == \/ file = "object" /\ cfg \in Files
          \/ file \in File \ {"object"} /\ cfg \in Generated

Started == process = "start" /\ trusted = 0 /\ answer = Nothing

MainInit == Stored /\ Started

LoadConfig == /\ process = "start"
              /\ process' = IF file = "object" /\ Valid(cfg) THEN "loaded" ELSE "exited"
              /\ UNCHANGED <<file, cfg, trusted, answer>>

\* -validate-config.
ValidateOnly == /\ process = "loaded" /\ process' = "validated"
                /\ UNCHANGED <<file, cfg, trusted, answer>>

\* NewApp leaves out what does not parse; with a certificate file it is TLS.
Listen == /\ process = "loaded"
          /\ process' = IF cfg.tls.cert # "unset" THEN "tls" ELSE "plain"
          /\ trusted' = cfg.proxies.listed - cfg.proxies.malformed
          /\ UNCHANGED <<file, cfg, answer>>

\* The port is taken, a certificate cannot be read.
ListenFails == /\ process = "loaded" /\ process' = "exited"
               /\ UNCHANGED <<file, cfg, trusted, answer>>

\* /healthz, /api/config (with what SafeConfig lists) and the page, for GET only.
Request(path, method) ==
  /\ Serving
  /\ answer' = IF method # "GET" THEN Answer("405", {}, NoIce)
               ELSE IF path = "/api/config"
               THEN Answer("rooms", {cfg.rooms[i].id : i \in DOMAIN cfg.rooms}, NoIce)
               ELSE Answer("200", {}, NoIce)
  /\ UNCHANGED <<file, cfg, process, trusted>>

\* strings.TrimSpace of what a display sends.
Trimmed(token) == IF token = "padded" THEN "stripped" ELSE token

\* A websocket is opened for room id by a page of an origin, which is answered 404,
\* 403, or is upgraded ...
TurnedAway(id, origin) == RoomsOf(cfg, id) = {} \/ ~OriginAllowed(cfg, origin)

Refuse(id, origin) ==
  /\ Serving /\ TurnedAway(id, origin)
  /\ answer' = Answer(IF RoomsOf(cfg, id) = {} THEN "404" ELSE "403", {}, NoIce)
  /\ UNCHANGED <<file, cfg, process, trusted>>

\* ... and, when it is a display with another token, unauthorized ...
Enrolled(id, token) == Trimmed(token) = Room(cfg, id).token

WrongToken(id, origin, token) ==
  /\ Serving /\ ~TurnedAway(id, origin) /\ ~Enrolled(id, token)
  /\ answer' = Answer("unauthorized", {}, NoIce)
  /\ UNCHANGED <<file, cfg, process, trusted>>

\* ... or else gets its iceConfig.  NewTicker panics at zero, in a goroutine where
\* nobody recovers.  (A presenter with the right code is served in the same way.)
LetIn(id) ==
  /\ answer' = IF IceFails(cfg) THEN Answer("dropped", {id}, NoIce)
               ELSE Answer("ready", {id}, Ice(cfg))
  /\ process' = IF cfg.limits.idle <= 0 THEN "crashed" ELSE process
  /\ UNCHANGED <<file, cfg, trusted>>

Enroll(id, origin, token) ==
  Serving /\ ~TurnedAway(id, origin) /\ Enrolled(id, token) /\ LetIn(id)
Present(id, origin) == Serving /\ ~TurnedAway(id, origin) /\ LetIn(id)

Stopped == process \in {"exited", "validated", "crashed"} /\ UNCHANGED mainVars

Ids == {"a", "b", "BadRoom"}
MainNext ==
  \/ LoadConfig \/ ValidateOnly \/ Listen \/ ListenFails
  \/ \E path \in {"/healthz", "/api/config", "/"}, method \in {"GET", "POST"} :
       Request(path, method)
  \/ \E id \in Ids, origin \in Site :
       Refuse(id, origin) \/ Present(id, origin)
  \/ \E id \in Ids, origin \in cfg.origins, token \in Token :
       WrongToken(id, origin, token) \/ Enroll(id, origin, token)
  \/ Stopped

MainSpec == MainInit /\ [][MainNext]_mainVars

-----------------------------------------------------------------------------
(* Properties                                                              *)

ServerTypeOK ==
  /\ file \in File /\ cfg \in Config /\ process \in ProcessStage /\ trusted \in 0..MaxProxies
  /\ answer.ice.policy \in {"unset", "all", "relay"}
  /\ \A s \in answer.ice.servers : s.lifetime \in Nat /\ s.lifetime <= 86400

\* A page that is let in is served: no configuration that Validate accepts makes
\* AuthenticatedICEConfig fail or the heartbeat bring the server down.
PagesServed == process # "crashed" /\ answer.status # "dropped"

\* Told to use relays only, a page has one, and credentials for it that last.
RelaysUsable ==
  answer.ice.policy = "relay" => \E s \in answer.ice.servers : s.lifetime >= 60

\* The tokens of an accepted configuration tell its rooms apart: with the token of
\* one entry of "rooms" a display of an allowed origin gets into that entry's room
\* and into no other.  (Tokens with blanks around them are another matter, see
\* README.md: Validate takes them, initialAuth trims what is compared with them.)
TokensOpenTheirRooms ==
  Serving =>
    \A i \in DOMAIN cfg.rooms :
      cfg.rooms[i].token # "padded" =>
        \A id \in Ids : \A origin \in cfg.origins :
          ~TurnedAway(id, origin) /\ Enrolled(id, cfg.rooms[i].token)
            <=> id = cfg.rooms[i].id

\* An answer the server would refuse does not get into config.json, as the test
\* test_invalid_answer_is_reprompted_before_config_creation has it for one of them.
GeneratedAccepted ==
  file = "object" /\ cfg \in Generated /\ process = "exited" => Valid(cfg)

\* No setting is dropped without a word: every proxy that is listed is trusted, and
\* who gives a key file does not get a server without TLS.
NoSettingIgnored ==
  Serving => /\ trusted = cfg.proxies.listed
             /\ cfg.tls.key # "unset" => process = "tls"

\* Whatever Validate accepts can be served, and is served as it is written.
ConfigurationServed ==
  PagesServed /\ RelaysUsable /\ TokensOpenTheirRooms /\ NoSettingIgnored

=============================================================================
