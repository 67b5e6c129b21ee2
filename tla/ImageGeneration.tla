-------------------------- MODULE ImageGeneration --------------------------
(***************************************************************************)
(* Images: requests in encrypted messages (api/websocket/handlers/         *)
(* image_generation.rs), requests over HTTP (api/generate_image), and what *)
(* they share: the client of the sidecar, the limiter of a session and the *)
(* bill of a job (diffusion/).  Connections that name the same session run *)
(* their requests at the same time.                                        *)
(***************************************************************************)
EXTENDS Integers, Sequences, FiniteSets, FiniteSetsExt, SequencesExt

CONSTANTS ImgTasks,      \* connections and HTTP requests
          ImgSessions,   \* sessions
          ImgJobs,       \* jobs
          ImgSizes,      \* sizes a request may ask for, in sixteenths of a megapixel
          AllowedSizes,  \* ALLOWED_SIZES
          ImgSteps,      \* steps a request may ask for
          RoundedUp,     \* pairs of size and steps whose f64 product is above the exact one
          ImgLimit,      \* max_per_window
          ImgWindow,     \* window
          MaxImages,     \* bound on the requests
          MaxImgNow      \* bound on the clock

ASSUME ImgAssumption ==
    /\ ImgSizes \subseteq Nat /\ ImgSteps \subseteq Nat /\ RoundedUp \subseteq Nat \X Nat
    /\ {ImgLimit, ImgWindow, MaxImages, MaxImgNow} \subseteq Nat
    /\ IsFiniteSet(ImgTasks) /\ ImgTasks # {}

VARIABLE img  \* clock, limiter, bills, client, checkpoint manager, requests

\* A prompt is what it says and how it is spelt; the last is empty.
Prompts == {<<"allowed", "lower">>, <<"blocked", "lower">>, <<"blocked", "upper">>, <<"", "lower">>}
ImgAsked == [prompt : Prompts, size : ImgSizes, steps : ImgSteps]
NoImageRequest == [pc |-> "idle", session |-> "none", job |-> "none", ask |-> "none"]

ImgInit ==
    img = [now |-> 0, asked |-> 0, client |-> FALSE, manager |-> FALSE,
           stamps |-> [s \in ImgSessions |-> <<>>],
           units |-> [j \in ImgJobs |-> 0], tokens |-> [j \in ImgJobs |-> 0],
           drawn |-> [j \in ImgJobs |-> {}], sent |-> {}, task |-> [t \in ImgTasks |-> NoImageRequest]]

ImgAt(t, pc) == img.task[t].pc = pc
ImgAnswered(s, t) == [s EXCEPT !.task[t] = NoImageRequest]

ImgTick == img.now < MaxImgNow /\ img' = [img EXCEPT !.now = @ + 1]

\* set_checkpoint_manager, at the end of the start-up.
ImgManagerSet == ~img.manager /\ img' = [img EXCEPT !.manager = TRUE]

\* set_diffusion_client waits for the HTTP requests, which keep the read guard while they generate.
SetDiffusionClient ==
    /\ ~img.client /\ \A t \in ImgTasks : ~ImgAt(t, "http")
    /\ img' = [img EXCEPT !.client = TRUE]

-----------------------------------------------------------------------------

RecentImages(stamps) ==
    FlattenSeq([i \in 1 .. Len(stamps) |-> IF img.now - stamps[i] < ImgWindow THEN <<stamps[i]>> ELSE <<>>])

\* Mutant: a session at its limit has one image more.
ImgRateHolds_OffByOne(s) == Len(RecentImages(img.stamps[s])) <= ImgLimit
ImgRateHolds(s) == Len(RecentImages(img.stamps[s])) < ImgLimit
RecordRequest(s) == Append(RecentImages(img.stamps[s]), img.now)

ValidRequest(r) == r.prompt[1] # "" /\ r.size \in AllowedSizes /\ r.steps \in 1 .. 100

\* Mutant: the blocklist is compared with the prompt as it is spelt.
CheckKeywords_AsSpelt(prompt) == prompt # <<"blocked", "lower">>
CheckKeywords(prompt) == prompt[1] # "blocked"

\* calculate_generation_units in 1/320 of a unit: sixteenths of a megapixel, steps of 20.
GenerationUnits(r) == r.size * r.steps

\* (units * 1000.0).ceil(): the f64 product may lie just above a whole number.
ImageTokens(r) ==
    (1000 * GenerationUnits(r) + 319) \div 320 + (IF <<r.size, r.steps>> \in RoundedUp THEN 1 ELSE 0)

-----------------------------------------------------------------------------

\* handle_encrypted_image_generation up to its first await: limit, fields, keywords.
ImageRequest(t, s, j, r) ==
    /\ ImgAt(t, "idle") /\ img.asked < MaxImages
    /\ LET asked == [img EXCEPT !.asked = @ + 1]
       IN img' = IF ImgRateHolds(s) /\ ValidRequest(r) /\ CheckKeywords(r.prompt)
                 THEN [asked EXCEPT !.task[t] = [pc |-> "client", session |-> s, job |-> j, ask |-> r]]
                 ELSE asked
GetDiffusionClient(t) ==
    /\ ImgAt(t, "client")
    /\ img' = IF img.client
              THEN [img EXCEPT !.task[t].pc = "generate", !.sent = @ \cup {img.task[t].ask}]
              ELSE ImgAnswered(img, t)
ImageFails(t) == ImgAt(t, "generate") /\ img' = ImgAnswered(img, t)

\* Mutant: the bill of a request is left to the checkpoint manager.
AfterImage_Uncounted(t) == IF img.task[t].job = "none" THEN "answer" ELSE "count"
AfterImage(t) == IF img.task[t].job = "none" THEN "answer" ELSE "track"

\* drawn is for the property: the images of a job, by their tasks and requests.
ImageGenerated(t) ==
    LET q == img.task[t]
        recorded == [img EXCEPT !.stamps[q.session] = RecordRequest(q.session), !.task[t].pc = AfterImage(t)]
    IN /\ ImgAt(t, "generate")
       /\ img' = IF q.job = "none" THEN recorded
                 ELSE [recorded EXCEPT !.drawn[q.job] = @ \cup {<<Cardinality(@), q.ask>>}]
TrackImage(t) ==
    /\ ImgAt(t, "track")
    /\ img' = [img EXCEPT !.units[img.task[t].job] = @ + GenerationUnits(img.task[t].ask), !.task[t].pc = "count"]

\* Without a manager, or when track_tokens fails, the image stays uncounted.
CountImage(t, works) ==
    /\ ImgAt(t, "count") /\ (works => img.manager)
    /\ img' = [img EXCEPT !.tokens[img.task[t].job] = @ + (IF works THEN ImageTokens(img.task[t].ask) ELSE 0),
                          !.task[t].pc = "answer"]
AnswerImage(t) == ImgAt(t, "answer") /\ img' = ImgAnswered(img, t)

\* generate_image_handler: no limit and no bill.
HttpImageRequest(t, r) ==
    /\ ImgAt(t, "idle") /\ img.asked < MaxImages
    /\ LET asked == [img EXCEPT !.asked = @ + 1]
       IN img' = IF ValidRequest(r) /\ img.client /\ CheckKeywords(r.prompt)
                 THEN [asked EXCEPT !.task[t] = [NoImageRequest EXCEPT !.pc = "http", !.ask = r], !.sent = @ \cup {r}]
                 ELSE asked
HttpImageEnds(t) == ImgAt(t, "http") /\ img' = ImgAnswered(img, t)

ImgNext ==
    \/ ImgTick \/ ImgManagerSet \/ SetDiffusionClient
    \/ \E t \in ImgTasks :
          \/ GetDiffusionClient(t) \/ ImageFails(t) \/ ImageGenerated(t) \/ TrackImage(t)
          \/ AnswerImage(t) \/ HttpImageEnds(t)
          \/ \E works \in BOOLEAN : CountImage(t, works)
          \/ \E r \in ImgAsked : HttpImageRequest(t, r)
                \/ \E s \in ImgSessions, j \in ImgJobs \cup {"none"} : ImageRequest(t, s, j, r)

ImgSpec == ImgInit /\ [][ImgNext]_img

-----------------------------------------------------------------------------

\* The check of a session's limit and the record of its request are an image apart: the
\* images of a window exceed the limit by no more than the requests that can pass the
\* check together.
ImagesWithinRate ==
    \A s \in ImgSessions :
        LET passed == {t \in ImgTasks : img.task[t].session = s /\ img.task[t].pc \in {"client", "generate"}}
        IN Len(RecentImages(img.stamps[s])) + Cardinality(passed) <= ImgLimit + Cardinality(ImgTasks) - 1

\* Every image made for a job is on its bill once, as soon as its request is past the
\* tracking; and what the checkpoint manager counts is no more than the exact tokens
\* of the images, up to one token each.
ImagesAreBilled ==
    \A j \in ImgJobs :
        LET due == {t \in ImgTasks : img.task[t].job = j /\ img.task[t].pc = "track"}
        IN /\ MapThenSumSet(LAMBDA d : GenerationUnits(d[2]), img.drawn[j])
                 = img.units[j] + MapThenSumSet(LAMBDA t : GenerationUnits(img.task[t].ask), due)
           /\ 320 * img.tokens[j] <= 1000 * img.units[j] + 640 * Cardinality(img.drawn[j])

\* Nothing the blocklist or the limits of a request refuse reaches the sidecar, by
\* either way in.
OnlyAllowedIsDrawn ==
    \A r \in img.sent : r.prompt[1] = "allowed" /\ r.size \in AllowedSizes /\ r.steps > 0
=============================================================================
