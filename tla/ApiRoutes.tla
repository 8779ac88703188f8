------------------------------- MODULE ApiRoutes ------------------------------
(***************************************************************************)
(* A request to an authenticated route end to end (index.js): the        *)
(* middleware chain of AuthMiddleware, then the handler of one of the      *)
(* routes behind it.  /account answers at once; /designs, /designs/:id     *)
(* and /improve ask a rate limiter first and then query the database      *)
(* (design.js) or download the image and submit it (improve.js).           *)
(*                                                                         *)
(* The removebg route's handler is prepare, which runs checkBalance        *)
(* (RemoteCredits.check is synchronous; its outcome here is an input, the  *)
(* decision itself is modelled in Credits), checks the parameters in       *)
(* order, downloads the image and then the background image when they are  *)
(* given as URLs, and calls validate; validate checks both images and the  *)
(* region of interest, converts the region to pixels, and asks the rate    *)
(* limiter; when it allows the call, processImage sends the message to     *)
(* core, and core's result callback charges the credit closure and sends  *)
(* the image, or sends the error.                                          *)
(*                                                                         *)
(* Every asynchronous step is an action: a download callback, the rate     *)
(* limiter's answer, core's result.  Everything between two of them runs   *)
(* synchronously and is part of one action.  Response bodies, headers and  *)
(* log lines are left out; a response is its error code or "image".        *)
(***************************************************************************)
EXTENDS Integers, Sequences, FiniteSets

CONSTANTS
    Requests, Scopes, Tries, TryDelayMs,  \* as in AuthMiddleware
    Sides,           \* image widths and heights
    MaxInputPixels,  \* validation.js maxInputPixels, in the same scale as Sides
    Percents,        \* relative roi coordinates getRoi accepts (at most 100)
    Pixels           \* absolute roi coordinates

VARIABLES req, pipe

(* The rate-limit stage of the three routes that wait on a limiter before *)
(* their work: /designs, /designs/:id and /improve.                        *)
RouteLimitStages == {"rl_designs", "rl_design", "rl_improve"}
vars == <<req, pipe>>

Auth == INSTANCE AuthMiddleware

Stages == {"idle", "dl_image", "dl_bg", "ratelimit", "core", "done"} \cup
          RouteLimitStages \cup
          {"q_templates", "q_configs", "q_template", "q_config", "dl_improve", "danni"}

(* checkBalance: a 400 for the size or channels parameter, a 402 from     *)
(* RemoteCredits.check's missing_credits callback, or its success.        *)
BalanceOutcomes == {"approved", "invalid_size", "invalid_channels", "insufficient_credits"}

(* The parameter parsers prepare calls in turn after the image sources,    *)
(* each ending the request with its 400 when it fails.                    *)
ParamErrors == {"invalid_format", "invalid_roi", "invalid_semitransparency",
                "invalid_crop_margin", "invalid_scale", "invalid_position",
                "invalid_bg_color"}

(* What a buffer handed to validateImageData may be. *)
DataKinds == {"image", "too_large", "not_jpg_png", "unreadable"}
Orientations == {1, 6}   \* EXIF orientation; 5..8 swap width and height

(* core's result.status, or the result.description of a failure. *)
CoreStatuses == {"ok", "unknown_foreground", "unknown_error", "failed_to_read_image", "other"}

Coords == [v : Percents, rel : {TRUE}] \cup [v : Pixels, rel : {FALSE}]
(* getRoi's result: two points; an absent roi is 0% 0% 100% 100%. *)
Rois == [1..2 -> [x : Coords, y : Coords]]

Pipe == [stage : Stages, bg : {"none", "url", "file"},
         w : Sides \cup {0}, h : Sides \cup {0}, roi : Seq(Nat),
         resp : STRING, sent : 0..2, rlPassed : BOOLEAN,
         coreCalls : 0..2, charged : 0..2,
         preset : BOOLEAN,      \* the design id names a preset ("<id>-tc-<config>")
         unhandled : BOOLEAN]   \* a rejected promise no handler catches

Init ==
    /\ Auth!Init
    /\ pipe = [r \in Requests |->
                 [stage |-> "idle", bg |-> "none", w |-> 0, h |-> 0, roi |-> <<>>,
                  resp |-> "none", sent |-> 0, rlPassed |-> FALSE,
                  coreCalls |-> 0, charged |-> 0, preset |-> FALSE,
                  unhandled |-> FALSE]]

(* The code of the first failing check of a sequence of early returns,    *)
(* each a pair <<fails, code>>; "none" when all pass.                     *)
FirstFailure(checks) ==
    LET f == SelectSeq(checks, LAMBDA c : c[1]) IN IF f = <<>> THEN "none" ELSE Head(f)[2]

(* sendError: status, JSON body, end. *)
SendError(p, code) == [p EXCEPT !.stage = "done", !.resp = code, !.sent = @ + 1]

(* Validation.validateImageData: size limit, file type, readable           *)
(* dimensions (swapped for EXIF orientations 5 to 8), pixel limit.        *)
ValidateImageData(data, w0, h0, orient) ==
    LET swap == orient >= 5 /\ orient <= 8
        w == IF swap THEN h0 ELSE w0
        h == IF swap THEN w0 ELSE h0
        code == FirstFailure(<< <<data = "too_large", "file_too_large">>,
                                <<data = "not_jpg_png", "invalid_file_type">>,
                                <<data = "unreadable", "invalid_dimensions">>,
                                <<w * h > MaxInputPixels, "resolution_too_high">> >>)
    IN IF code = "none" THEN [valid |-> TRUE, code |-> code, width |-> w, height |-> h]
       ELSE [valid |-> FALSE, code |-> code, width |-> 0, height |-> 0]

(* validate's loop over the roi points: an absolute coordinate past the   *)
(* last pixel column or row is refused.                                   *)
RoiExceeds(roi, w, h) ==
    \E i \in 1..2 : (~roi[i].x.rel /\ roi[i].x.v > w - 1) \/ (~roi[i].y.rel /\ roi[i].y.v > h - 1)

(* Mutant: a relative coordinate scaled by the side instead of side - 1. *)
ToPixelFullSide(c, side) ==
    IF c.rel THEN (c.v * side * 2 + 100) \div 200 ELSE c.v

(* Math.round(point.x / 100 * (width - 1)) for a relative coordinate      *)
(* (Math.round rounds halves up); an absolute one is kept.                *)
ToPixel(c, side) ==
    IF c.rel THEN (c.v * (side - 1) * 2 + 100) \div 200 ELSE c.v

(* The roi of processImage's message: [x1, y1, x2, y2] in pixels. *)
RoiPixels(roi, w, h) ==
    << ToPixel(roi[1].x, w), ToPixel(roi[1].y, h), ToPixel(roi[2].x, w), ToPixel(roi[2].y, h) >>

(* validate, from the roi on: each point converted or bounds-checked, the *)
(* empty-region check, core's connection, then applyRateLimit, which      *)
(* issues ratelimit.per_minute and returns its promise.                   *)
CheckRoi(r, p, img) ==
    \E roi \in Rois :
      LET px == RoiPixels(roi, img.width, img.height) IN
      IF RoiExceeds(roi, img.width, img.height)
      THEN pipe' = [pipe EXCEPT ![r] = SendError(p, "roi_exceeds_bounds")]
      ELSE IF px[1] = px[3] \/ px[2] = px[4]
      THEN pipe' = [pipe EXCEPT ![r] = SendError(p, "roi_region_empty")]
      ELSE \E connected \in BOOLEAN :
        IF ~connected
        THEN pipe' = [pipe EXCEPT ![r] = SendError(p, "internal_messaging_error")]
        ELSE pipe' = [pipe EXCEPT ![r] = [p EXCEPT !.stage = "ratelimit", !.w = img.width,
                                                   !.h = img.height, !.roi = px]]

(* What validateImageData may return for any buffer and dimensions. *)
ImageResults == {ValidateImageData(d, w, h, o) : d \in DataKinds, w \in Sides, h \in Sides,
                                                 o \in Orientations}

(* validate: the image, then the background image when there is one. *)
Validate(r, p) ==
    \E img \in ImageResults :
      IF ~img.valid THEN pipe' = [pipe EXCEPT ![r] = SendError(p, img.code)]
      ELSE IF p.bg = "none" THEN CheckRoi(r, p, img)
      ELSE \E bgImg \in ImageResults :
        IF ~bgImg.valid THEN pipe' = [pipe EXCEPT ![r] = SendError(p, bgImg.code)]
        ELSE CheckRoi(r, p, img)

(* afterOriginalFetched: download bg_image_url, or validate with the      *)
(* background file or none.                                               *)
AfterOriginalFetched(r, p) ==
    IF p.bg = "url" THEN pipe' = [pipe EXCEPT ![r] = [p EXCEPT !.stage = "dl_bg"]]
    ELSE Validate(r, p)

(* sendError on request r's response. *)
Respond(r, code) == pipe' = [pipe EXCEPT ![r] = SendError(@, code)]

(* checkBalance's success callback, its early returns in order: the image *)
(* sources, image_url, the parameter parsers, the background sources;     *)
(* then the image download, or afterOriginalFetched with the file or the  *)
(* decoded base64 data.                                                   *)
PrepareSources(r) ==
    \E src \in SUBSET {"url", "file", "b64"} :
      IF Cardinality(src) > 1 THEN Respond(r, "multiple_sources")
      ELSE IF src = {} THEN Respond(r, "missing_source")
      ELSE \E urlOk \in BOOLEAN :
      IF "url" \in src /\ ~urlOk THEN Respond(r, "invalid_image_url")
      ELSE \E param \in ParamErrors \cup {"none"} :
      IF param # "none" THEN Respond(r, param)
      ELSE \E bg \in SUBSET {"color", "url", "file"}, bgUrlOk \in BOOLEAN :
      IF "url" \in bg /\ ~bgUrlOk THEN Respond(r, "invalid_bg_image_url")
      ELSE IF Cardinality(bg) > 1 THEN Respond(r, "multiple_bg_sources")
      ELSE LET p1 == [pipe[r] EXCEPT !.bg = IF "url" \in bg THEN "url"
                                           ELSE IF "file" \in bg THEN "file" ELSE "none"]
           IN IF "url" \in src THEN pipe' = [pipe EXCEPT ![r] = [p1 EXCEPT !.stage = "dl_image"]]
              ELSE AfterOriginalFetched(r, p1)

(* prepare, from the route handler: checkBalance, whose success callback  *)
(* is PrepareSources.                                                     *)
Prepare(r) ==
    /\ req[r].resp = "handler" /\ pipe[r].stage = "idle"
    /\ \E bal \in BalanceOutcomes :
         IF bal # "approved" THEN Respond(r, bal) ELSE PrepareSources(r)
    /\ UNCHANGED req

(* The download callback of image_url: on error a 400, otherwise          *)
(* afterOriginalFetched.                                                  *)
DownloadImage(r) ==
    /\ pipe[r].stage = "dl_image"
    /\ \/ pipe' = [pipe EXCEPT ![r] = SendError(@, "failed_image_download")]
       \/ AfterOriginalFetched(r, pipe[r])
    /\ UNCHANGED req

(* Mutant: the error callback of the background download only logs. *)
DownloadBgNoError(r) ==
    /\ pipe[r].stage = "dl_bg"
    /\ \/ pipe' = [pipe EXCEPT ![r].stage = "done"]
       \/ Validate(r, pipe[r])
    /\ UNCHANGED req

(* The download callback of bg_image_url: on error a 400, otherwise       *)
(* afterAllFetched, which is validate.                                    *)
DownloadBg(r) ==
    /\ pipe[r].stage = "dl_bg"
    /\ \/ pipe' = [pipe EXCEPT ![r] = SendError(@, "failed_bg_download")]
       \/ Validate(r, pipe[r])
    /\ UNCHANGED req

(* Mutant: validate's catch answers the rejection with a 500 as well. *)
RateLimitReplyCatchSends(r) ==
    /\ pipe[r].stage = "ratelimit"
    /\ \/ pipe' = [pipe EXCEPT ![r] = [@ EXCEPT !.stage = "core", !.rlPassed = TRUE,
                                                !.coreCalls = @ + 1]]
       \/ pipe' = [pipe EXCEPT ![r] = SendError(SendError(@, "rate_limit_exceeded"),
                                               "internal_error")]
    /\ UNCHANGED req

(* ratelimit.per_minute settles: resolved, applyRateLimit resolves and    *)
(* validate's then-callback calls processImage, which sends the message   *)
(* to core; rejected (the limit is exceeded, or the limiter fails), it    *)
(* sends the 429 and rejects, and validate's catch does nothing.          *)
RateLimitReply(r) ==
    /\ pipe[r].stage = "ratelimit"
    /\ \/ pipe' = [pipe EXCEPT ![r] = [@ EXCEPT !.stage = "core", !.rlPassed = TRUE,
                                                !.coreCalls = @ + 1]]
       \/ pipe' = [pipe EXCEPT ![r] = SendError(@, "rate_limit_exceeded")]
    /\ UNCHANGED req

(* Mutant: the charge taken before the result's status is looked at. *)
CoreResultChargeFirst(r) ==
    /\ pipe[r].stage = "core"
    /\ \E status \in CoreStatuses :
         LET p1 == [pipe[r] EXCEPT !.charged = @ + 1] IN
         IF status = "ok"
         THEN pipe' = [pipe EXCEPT ![r] = [p1 EXCEPT !.stage = "done", !.resp = "image",
                                                     !.sent = @ + 1]]
         ELSE pipe' = [pipe EXCEPT ![r] = SendError(p1, status)]
    /\ UNCHANGED req

(* core's result callback: for status "ok", auth.charge(resolution), then *)
(* the image is sent; otherwise sendError with the result's description.  *)
CoreResult(r) ==
    /\ pipe[r].stage = "core"
    /\ \E status \in CoreStatuses :
         IF status = "ok"
         THEN pipe' = [pipe EXCEPT ![r] = [@ EXCEPT !.charged = @ + 1, !.stage = "done",
                                                   !.resp = "image", !.sent = @ + 1]]
         ELSE pipe' = [pipe EXCEPT ![r] = SendError(@, status)]
    /\ UNCHANGED req

(* The /account handler: the balance as JSON, synchronously. *)
AccountHandler(r) ==
    /\ req[r].resp = "handler" /\ pipe[r].stage = "idle"
    /\ pipe' = [pipe EXCEPT ![r] = [@ EXCEPT !.stage = "done", !.resp = "json", !.sent = @ + 1]]
    /\ UNCHANGED req

(* The handlers of /designs, /designs/:id and /improve: applyRateLimit    *)
(* (1 megapixel) or applyImproveRateLimit, whose promise then runs the    *)
(* route's work; neither chain has a catch.                               *)
RateLimitedHandler(r) ==
    /\ req[r].resp = "handler" /\ pipe[r].stage = "idle"
    /\ \E st \in RouteLimitStages : pipe' = [pipe EXCEPT ![r].stage = st]
    /\ UNCHANGED req

(* design.js fieldmap: the attribute names a design may be rendered with. *)
FieldMap == {"name", "description", "creator_name", "config_url", "thumbnail_url",
             "script_url", "script_data", "script_inputs"}

(* What fields[design] may ask for: absent ({}), valid names, or a name   *)
(* that is not in fieldmap.                                               *)
FieldQueries == {{}, {"name", "script_data"}, {"name", "slug"}}

(* getFieldConfig: the requested fields, ["name"] when absent; an error   *)
(* when one of them is not in fieldmap.                                   *)
GetFieldConfig(q) ==
    LET fields == IF q = {} THEN {"name"} ELSE q
    IN IF fields \subseteq FieldMap THEN [fields |-> fields, error |-> FALSE]
       ELSE [fields |-> {}, error |-> TRUE]

(* Design.index: a 400 for an invalid field, else allTemplates. *)
DesignIndex(r, p) ==
    \E q \in FieldQueries :
      IF GetFieldConfig(q).error THEN pipe' = [pipe EXCEPT ![r] = SendError(p, "invalid_field")]
      ELSE pipe' = [pipe EXCEPT ![r] = [p EXCEPT !.stage = "q_templates"]]

(* Design.show: a 400 for an invalid field, else the id is split on       *)
(* "-tc-" into template and preset, and findTemplate is issued.           *)
DesignShow(r, p) ==
    \E q \in FieldQueries, preset \in BOOLEAN :
      IF GetFieldConfig(q).error THEN pipe' = [pipe EXCEPT ![r] = SendError(p, "invalid_field")]
      ELSE pipe' = [pipe EXCEPT ![r] = [p EXCEPT !.stage = "q_template", !.preset = preset]]

(* The codes validateImageData may end a request with ("none": valid). *)
ImageCodes == {img.code : img \in ImageResults}

(* imageFetched: validateImageData, a 400 when invalid, else              *)
(* danni.submit.                                                          *)
ImageFetched(r, p) ==
    \E code \in ImageCodes :
      IF code # "none" THEN pipe' = [pipe EXCEPT ![r] = SendError(p, code)]
      ELSE pipe' = [pipe EXCEPT ![r] = [p EXCEPT !.stage = "danni"]]

(* Improve.process: validateImageInput's early returns (then the          *)
(* headersSent return), and fetchImage, which downloads an image_url and  *)
(* calls imageFetched at once for base64 data or a file.                  *)
ImproveProcess(r, p) ==
    \E src \in SUBSET {"url", "file", "b64"}, urlOk \in BOOLEAN :
      LET code == FirstFailure(<< <<Cardinality(src) > 1, "multiple_sources">>,
                                  <<src = {}, "missing_source">>,
                                  <<"url" \in src /\ ~urlOk, "invalid_image_url">> >>)
      IN IF code # "none" THEN pipe' = [pipe EXCEPT ![r] = SendError(p, code)]
         ELSE IF "url" \in src THEN pipe' = [pipe EXCEPT ![r] = [p EXCEPT !.stage = "dl_improve"]]
         ELSE ImageFetched(r, p)

(* The route's limiter settles.  Resolved: the then-callback runs the     *)
(* route's work.  Rejected: the limiter's catch sends the 429 and calls   *)
(* reject(), and the route's promise chain has no catch, so the rejection *)
(* is unhandled.                                                          *)
RouteLimitReply(r) ==
    /\ pipe[r].stage \in RouteLimitStages
    /\ \/ pipe' = [pipe EXCEPT ![r] = [SendError(@, "rate_limit_exceeded") EXCEPT
                                         !.unhandled = TRUE]]
       \/ LET p == pipe[r] IN
          CASE p.stage = "rl_designs" -> DesignIndex(r, p)
            [] p.stage = "rl_design"  -> DesignShow(r, p)
            [] p.stage = "rl_improve" -> ImproveProcess(r, p)
    /\ UNCHANGED req

(* A database query of the design routes settles: an error ends the       *)
(* request with a 500.                                                    *)
QueryFails(r) == pipe' = [pipe EXCEPT ![r] = SendError(@, "internal_error")]

(* The request's JSON answer. *)
SendJson(r) == pipe' = [pipe EXCEPT ![r] = [@ EXCEPT !.stage = "done", !.resp = "json",
                                                    !.sent = @ + 1]]

(* allTemplates settles: on success allConfigs is issued. *)
AllTemplatesSettled(r) ==
    /\ pipe[r].stage = "q_templates"
    /\ \/ QueryFails(r)
       \/ pipe' = [pipe EXCEPT ![r].stage = "q_configs"]
    /\ UNCHANGED req

(* allConfigs settles: on success the designs and their presets as JSON. *)
AllConfigsSettled(r) ==
    /\ pipe[r].stage = "q_configs"
    /\ QueryFails(r) \/ SendJson(r)
    /\ UNCHANGED req

(* findTemplate settles: not exactly one row is a 404; one row is sent at *)
(* once, or, for a preset, findConfig is issued (configureIfRequired).    *)
FindTemplateSettled(r) ==
    /\ pipe[r].stage = "q_template"
    /\ \/ QueryFails(r)
       \/ Respond(r, "design_not_found")
       \/ ~pipe[r].preset /\ SendJson(r)
       \/ pipe[r].preset /\ pipe' = [pipe EXCEPT ![r].stage = "q_config"]
    /\ UNCHANGED req

(* findConfig settles: an error is a 500, not exactly one row a 404 (the  *)
(* configureIfRequired promise then never settles), one row the design.   *)
FindConfigSettled(r) ==
    /\ pipe[r].stage = "q_config"
    /\ \/ QueryFails(r)
       \/ Respond(r, "preset_not_found")
       \/ SendJson(r)
    /\ UNCHANGED req

(* The download callbacks of improve's image_url: a 400 on error,         *)
(* otherwise imageFetched.                                                *)
ImproveDownload(r) ==
    /\ pipe[r].stage = "dl_improve"
    /\ \/ Respond(r, "failed_image_download")
       \/ ImageFetched(r, pipe[r])
    /\ UNCHANGED req

(* danni.submit settles: the submission's id as JSON, or a 500. *)
DanniSubmitted(r) ==
    /\ pipe[r].stage = "danni"
    /\ SendJson(r) \/ QueryFails(r)
    /\ UNCHANGED req

Next ==
    \/ Auth!Next /\ UNCHANGED pipe
    \/ \E r \in Requests :
         \/ Prepare(r) \/ DownloadImage(r) \/ DownloadBg(r)
         \/ RateLimitReply(r) \/ CoreResult(r)
         \/ AccountHandler(r) \/ RateLimitedHandler(r) \/ RouteLimitReply(r)
         \/ AllTemplatesSettled(r) \/ AllConfigsSettled(r) \/ FindTemplateSettled(r)
         \/ FindConfigSettled(r) \/ ImproveDownload(r) \/ DanniSubmitted(r)

(* The steps of request r after it arrived: the credential promise        *)
(* settles, the users-api answers within its 5000 ms timeout, a retry     *)
(* timer fires (AuthMiddleware's fairness); next() runs the handler of   *)
(* the request's route (the handlers are the alternatives of that one     *)
(* step); download calls one of its callbacks; a limiter's promise, a     *)
(* query or danni.submit settles; core calls its result callback.  A      *)
(* request is one chain of callbacks, so only the step at its head is     *)
(* enabled, and weak fairness of their disjunction is weak fairness of    *)
(* that step.                                                             *)
RequestStep(r) ==
    \/ Auth!CredentialResolved(r) /\ UNCHANGED pipe
    \/ Auth!UserReply(r) /\ UNCHANGED pipe
    \/ Auth!RetryTimer(r) /\ UNCHANGED pipe
    \/ Prepare(r) \/ DownloadImage(r) \/ DownloadBg(r) \/ RateLimitReply(r) \/ CoreResult(r)
    \/ AccountHandler(r) \/ RateLimitedHandler(r) \/ RouteLimitReply(r)
    \/ AllTemplatesSettled(r) \/ AllConfigsSettled(r) \/ FindTemplateSettled(r)
    \/ FindConfigSettled(r) \/ ImproveDownload(r) \/ DanniSubmitted(r)

Fairness == \A r \in Requests : WF_vars(RequestStep(r))

Spec == Init /\ [][Next]_vars /\ Fairness

-----------------------------------------------------------------------------
TypeOK == Auth!TypeOK /\ pipe \in [Requests -> Pipe]

(* The middleware's properties, on the composed system. *)
HandlerOnlyIfAuthorized == Auth!HandlerOnlyIfAuthorized
RetriesBounded == Auth!RetriesBounded
NotFoundNeverRetried == Auth!NotFoundNeverRetried

(* The HTTP responses a request has had: the middleware's own, or the     *)
(* route's once next() handed it to prepare.                               *)
Responses(r) == IF req[r].resp = "handler" THEN pipe[r].sent ELSE req[r].sent

(* On every path through the middleware and every route (removebg's       *)
(* prepare, downloads, validate, limiter and core callback; the design    *)
(* queries; improve's download and submission), at most one response is  *)
(* sent: each early return and each callback ends the request once.       *)
AtMostOneResponse == \A r \in Requests : Responses(r) <= 1

(* Every request that arrives is eventually answered, whichever callback  *)
(* ends it, provided the downloads, the limiter and core answer.          *)
EveryRequestAnswered == \A r \in Requests : req[r].stage # "idle" ~> Responses(r) = 1

(* The credit closure is charged at most once, and exactly for the        *)
(* requests that receive their image: after the balance check, the rate   *)
(* limiter and core all accepted it.                                      *)
ChargedOnlyForDeliveredImage ==
    \A r \in Requests :
        /\ pipe[r].charged <= 1
        /\ pipe[r].charged = 1 <=> pipe[r].resp = "image"
        /\ pipe[r].charged = 1 => pipe[r].rlPassed /\ pipe[r].coreCalls = 1

(* The region of interest sent to core lies inside the image and is not   *)
(* empty: getRoi's limit of 100%, validate's rounding of relative         *)
(* coordinates and its bounds check of absolute ones together keep every  *)
(* coordinate between 0 and the last pixel column or row.                 *)
RoiWithinImage ==
    \A r \in Requests : pipe[r].coreCalls > 0 =>
        LET q == pipe[r].roi IN
        /\ \A i \in {1, 3} : q[i] \in 0..pipe[r].w - 1
        /\ \A i \in {2, 4} : q[i] \in 0..pipe[r].h - 1
        /\ q[1] # q[3] /\ q[2] # q[4]

(* Every promise a route handler rejects is caught: validate's chain ends *)
(* in a no-op catch for the limiter's reject() after its 429, and the     *)
(* other rate-limited routes are expected to do the same.  An unhandled    *)
(* rejection is reported by Node and, from Node 15 on, ends the process    *)
(* with every request in flight.                                           *)
NoUnhandledRejection == \A r \in Requests : ~pipe[r].unhandled
=============================================================================
