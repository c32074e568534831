---------------------------- MODULE IntakeStages ----------------------------
(***************************************************************************)
(* What the stage handlers of an ingest may report: the representation an  *)
(* acquisition observes, what a decoder can read of it, which cleaners     *)
(* accept it, and the admission a preflight decides.                       *)
(*                                                                         *)
(* A representation fact is [media, kind, layer, mainText]: the verified   *)
(* media family, how the bytes were obtained, the PDF text layer and       *)
(* whether main text was found.  The bytes themselves, their digests and   *)
(* the evidence envelopes are left out.                                    *)
(***************************************************************************)
EXTENDS WorkflowGraph

NoFact == [media |-> "none", kind |-> "none", layer |-> "none", mainText |-> "none"]

MediaFamilies == {"text", "pdf", "image", "opaque"}

AcquireSteps ==
  {"acquire", "acquire_inline", "acquire_local", "acquire_static", "acquire_browser",
   "acquire_browser_reacquire", "acquire_print", "acquire_registered_api"}
DecodeSteps ==
  {"decode", "decode_text", "decode_image", "decode_pdf", "decode_print", "decode_web_static",
   "decode_web_browser", "decode_web_reacquire"}
CleanSteps == DOMAIN CleanStepStrategy \cup {"clean_map_registered_api"}

Acquired(media, kind) ==
  [media |-> media, kind |-> kind, layer |-> "not_applicable", mainText |-> "unknown"]

\* _acquire_content: the step, not the declared mode, selects render and print;
\* mode "pdf" is verified against the bytes; other bytes are classified as found.
AcquiredFacts(step, mode) ==
  IF step = "acquire_print" THEN {Acquired("pdf", "print_pdf")}
  ELSE IF step \in {"acquire_browser", "acquire_browser_reacquire"} THEN {Acquired("text", "rendered")}
  ELSE IF step = "acquire_registered_api" THEN {Acquired("text", "transferred")}
  ELSE IF step = "acquire_static" /\ mode = "pdf" THEN {Acquired("pdf", "transferred")}
  ELSE {Acquired(m, "transferred") : m \in MediaFamilies}

\* The decoder bound to a step; a pinned profile plan binds either to "decode".
DecoderReads(step, media) ==
  IF step \in {"decode_pdf", "decode_print"} THEN media = "pdf"
  ELSE IF step = "decode" THEN media # "opaque"
  ELSE media \in {"text", "image"}

\* _decode and observe_main_text: no facts means the decoder refuses the media.
DecodedFacts(step, f) ==
  IF ~DecoderReads(step, f.media) THEN {}
  ELSE IF f.media = "image" THEN {[f EXCEPT !.kind = "image_evidence", !.mainText = "unknown"]}
  ELSE IF f.media = "text" THEN {[f EXCEPT !.mainText = m] : m \in {"present", "absent", "unknown"}}
  ELSE {[f EXCEPT !.layer = "present", !.mainText = "present"],
        [f EXCEPT !.layer = "absent", !.mainText = "absent"],
        [f EXCEPT !.layer = "encrypted", !.mainText = "unknown"],
        [f EXCEPT !.layer = "corrupt", !.mainText = "unknown"]}

\* The media a cleaner accepts (_clean's capability checks).
CleanerAccepts(step, media) ==
  /\ step = "clean_vision" => media = "image"
  /\ step \in {"clean_doc_ocr", "clean_pdf_ocr"} => media \in {"image", "pdf"}
  /\ step \in {"clean", "clean_deterministic"} => media # "image"

\* _preflight: cleaned text is never blank (CLEAN_EMPTY), so the source's
\* require_human_review decides.
Admission(review) == IF review THEN "human_review_required" ELSE "auto_admitted"
=============================================================================
