# TLA+ models of the document analyser (confirmate `collectors/documents`)

This directory holds TLA+ models of the Python package
`src/collectors/documents/src/document_analyser`, the TLC configurations that
check them, and `PROJECT.json`. `PROJECT.json` lists each component, run,
mutant, source mapping, finding and hazard.

## 1. Inventory

| Component | Source | State it keeps | Operations |
|---|---|---|---|
| Requirement catalog | `requirements.py` | the static `REQUIREMENTS` table (id, name, prompt, resource_type, response_field_name) | `get_requirement`, `list_requirements` |
| Prompt builder | `prompts.py` | none | `build_messages` (general), `build_requirement_messages` |
| Model configuration | `config.py` | none | `ModelConfig.from_env` |
| Evidence store configuration | `evidence_store.py` 19-57, `build_evidence_config` in `cli.py` | none | `EvidenceStoreConfig.from_env`, `evidence_url`, the `--evidence-url` / `--evidence-auth` overrides |
| LLM gateway | `llm.py` | an OpenAI client | `chat(messages, response_format)` |
| Document loaders | `loaders.py`, `DocumentLoader` in `pipeline.py` | none | `load_any_document` (raises `FileNotFoundError`), `concatenate_documents` |
| Evidence analyser | `extractor.py` | the `evidence_items` being built | `analyse` (general), `analyse_requirements` (one LLM call per requirement, `_parse_bool` coercion) |
| Payload builder | `evidence_store.py` 60-140 | none | `build_evidence_payloads`, `_strip_none`, `build_test_evidence_payload` |
| Evidence store client | `evidence_store.py` 143-213 | the httpx connection and the cached OAuth token `_token` | `_get_token`, `send_evidence`, `send_batch`, `close` / `__exit__` |
| Pipeline orchestrator | `pipeline.py` | none between calls | `DocumentAnalysisPipeline.run`, `EvidenceExtractor.extract`, `EvidencePublisher.push` |
| CLI | `cli.py` | none | `main`: argument checks, `--test-evidence`, requirement selection, exit codes |

**How the components interact.** `cli.main` builds a `DocumentAnalysisPipeline`.
`run` loads the documents. It then calls the analyser. `EvidenceExtractor.extract`
uses requirement mode whenever the requirement list is non-empty. The CLI always
passes a non-empty list. Requirement mode makes one `llm.chat` call per
requirement. When push is enabled, `EvidencePublisher.push` builds the payloads
and opens an `EvidenceStoreClient` in a `with` block. It then calls
`send_batch`. That fetches the OAuth token the first time and POSTs each payload
in turn. Every step is synchronous and runs on one thread. There is no
concurrency inside the process.

**Behaviours that are hard to test.** These are the external answers, and above
all how they combine over a run:
- The model may reply with undecodable text or with JSON that is not an object.
- It may reply with contradictory verdict fields.
- It may write verdicts in any case or with surrounding blanks.
- The token endpoint may fail, answer without a token, or answer without a JSON body.
- The evidence endpoint may reject a payload, answer 204, or answer a 2xx without a JSON body.
- The connection may fail before or after the store has taken a payload. In the second case the response is lost.
- A token may expire during a batch.
- A payload may fail part-way through a batch, after some have been stored.

**What makes each component correct.**
- Analyser:
  - one item per requirement, in order;
  - a verdict is always a boolean and is true only when the reply affirms it;
  - the configured field takes precedence over `fulfilled`;
  - a bad reply is isolated (spec 4.1).
- Store client:
  - payloads reach the store in batch order, each at most once;
  - a successful return means everything is stored;
  - at most one payload is in doubt after a failure;
  - the connection is always released (spec 4.4).
- Payload builder: the document wrap-around `idx % len`, the snippet/citation merge rule, the resource kind, and pruning (spec 4.3).
- Pipeline:
  - what is stored matches what the analysis found;
  - the count it returns is what the store holds;
  - extraction output survives a publish failure (spec 7).

## 2. Modules

| Module | Models | State (VARIABLES) | Actions |
|---|---|---|---|
| `JsonValues` | the JSON values read by the analyser and the payload builder | (operators only) | `Get` (= `dict.get`), `Truthy`, `GetOr` (= `a or b or default`), `Normalize` (= `strip().lower()`) |
| `Analyser` | `DocumentAnalyser`, the prompt builder and `LLMClient.chat` | `mode, docs, reqs, phase, next, items, replies, error` | `Analyse`, `AnalyseRequirementsBegin`, `AnalyseRequirement` (one loop iteration), `ReplyNotAnObject`, `ChatRaised`, `AnalyseRequirementsReturn`; operators `AskedField` (the field the prompt asks for), `FieldName` (the field the parser reads) |
| `Payloads` | `build_evidence_payloads`, `_strip_none`, `build_test_evidence_payload` | (operators only) | `BuildPayloads`, `Payload`, `RawText`, `SnippetOf`, `CitationOf`, `StripNone` (RECURSIVE), `TestPayload` |
| `EvidenceSink` | abstract: what publishing a batch promises | `batch, stored, status` | `Start`, `Deliver`, `Succeed`, `Fail` |
| `StoreClient` | `EvidenceStoreClient` inside its `with` block, and both endpoints | `conn, token, batch, sent, cphase, cerror, request, response, granted, expired, stored` | client: `SendBatch`, `RequestToken`, `ReceiveToken`, `PostEvidence`, `ReceiveEvidenceResponse`, `BatchReturn`, `Close`; servers: `TokenEndpoint`, `EvidenceEndpoint`, `ExpireToken` |
| `Requirements` | `requirements.py` | (operators only) | `REQUIREMENTS` (19 entries in dict order), `GetRequirement`, `ListRequirements` |
| `Pipeline` | `DocumentAnalysisPipeline.run` composing `Analyser`, `Payloads` and `StoreClient` through `INSTANCE` | its own `pphase, perror, push, requested, documents, pushed` plus the analyser's and the client's | `Run` (with the loader: `LoadOutcome`, `LoadError`), `Extract`, `ExtractionRaised`, `ReturnWithoutPush`, `Publish`, `PublishReturned`, `PublishRaised`, plus the lifted analyser and client steps |
| `StoreConfig` | `EvidenceStoreConfig.from_env`, `evidence_url`, `build_evidence_config` | (operators only) | `Getenv` (`os.getenv(name, default)`), `GetenvOr` (`os.getenv(a) or b`), `FromEnv`, `EvidenceUrl`, `EvidenceConfigError`, `BuildEvidenceConfig`; a URL is its store (host) and path |
| `Cli` | `cli.main`, `build_config`, `ModelConfig.from_env`, composing `StoreConfig` and `Pipeline` (and through it `Analyser` and `StoreClient`) | `stage, inv, present, exit, escaped, evcfg` (the client's configuration, once built) plus the pipeline's | `Main` (argument check and configuration), `TestEvidence`, `TestFinish`, `CheckFiles`, `Launch` (publisher, requirement selection, `run`), `Finish`, `PipelineStep`; environment: `RemoveFile` |

`MCAnalyser`, `MCStoreClient`, `MCPipeline` and `MCCli` give the constants their values for TLC. `MCStripNone` runs `StripNone` as one step over every input of a bounded set.

**Abstractions.**
- The language model is the environment. Each `chat` call returns any member of `Replies(req)`.
- A reply is modelled by what `json.loads` makes of it:
  - `NotJson`, which raises `JSONDecodeError` and is caught;
  - a member of `NonObjects`, meaning a list, null, a number or a string;
  - an object, which is a TLA+ function from keys to JSON values.
- A string keeps its stripped, lower-case word and how the raw text differs from it, as a case and a padding flag. `Normalize` forgets the difference, which is exactly what `strip().lower()` does.
- A call of `llm.chat` either returns a reply or raises (`ChatRaised`). The raise stands for the OpenAI client's connection, timeout and status errors, after the client's own retries.
- A path the loader cannot read although it exists (a directory, no read permission, a PDF pypdf rejects) is a member of the constant `Unreadable`. Its error is `ReadError`.
- Prompt text, document contents, UUIDs and timestamps are left out. No property depends on them. A payload's id is represented by its position and its resource id.
- Every HTTP call is split into three steps: the client's request, the server's handling, and the client reading the response. This lets a transport error happen either before or after the store has taken the payload.
- `raw` is a sequence of text pieces. `""` is the empty sequence.
- A JSON dict or list is a tagged record (`JDict`, `JList`) so that `StripNone` can tell `{}` from `[]`.
- In `Cli` an invocation is an already parsed argument vector and environment: files, `--test-evidence`, `--push-evidence`, `EVIDENCE_AUTO_PUSH`, `--evidence-auth` (valid or without `:`), `--test-requirement`, and whether the model settings are set and numeric. The file system is the variable `present`; `RemoveFile` is the environment removing a file at any time before main ends.
- An exception that leaves `main` is recorded in `escaped`; `main` then returns no exit code.
- A catalog entry keeps its id, resource type and field; the requirement statement is abridged to its catalog key and the instruction text is left out.

## 3. Runs

| Run | Checks | Result |
|---|---|---|
| `analyser` | `TypeOK`, `ItemsFollowRequirements`, `VerdictNeverInvented`, `AffirmativeAnswerRecorded` | pass, about 722k states |
| `analyser_configured_field` | `ConfiguredFieldDecides` | violation |
| `analyser_isolation` | `BadReplyIsolated` | violation |
| `client` | `TypeOK`, `UnacknowledgedAtMostOne`, `SinkRefinement` (`EvidenceSink!Spec`) | pass |
| `pipeline` | `PublishedEvidenceMatchesAnalysis` | pass, about 21k states |
| `pipeline_publish_failure` | `ExtractionSurvivesPublishFailure` | violation |
| `pipeline_raw` | `RawFollowsMergeRule` | violation |
| `pipeline_resource_kind` | `PayloadKindMatchesRequirement` | violation |
| `cli` | `ExitZeroMeansPublished`, `UncaughtOnlyFromConfiguration`, `RunFailsOnlyFromEnvironment`, `Terminates` | pass, about 24k states |
| `cli_token` | `TokenFromEvidenceStore` | violation |
| `cli_catalog` | `ItemRequirementIdsDistinct` (whole catalog) | violation |
| `strip_none` | `NoPlaceholderRemains` | violation (latent) |

What the `cli` run shows:
- `ExitZeroMeansPublished`: exit 0 only when the store holds the test payload (after `--test-evidence`), the whole batch (after a push), or nothing (no push). This holds for every endpoint answer, including failures part-way through a batch.
- `UncaughtOnlyFromConfiguration`: only two exceptions leave `main`. One is a `ValueError` from a malformed numeric model setting (`config.py` 38-39). The other is a `ConfigError` from `build_evidence_config` when push is enabled (`cli.py` 164 is outside the `try`). A file removed between the existence check and the loader, a non-JSON token or evidence response (`JSONDecodeError`) and a bad model reply all end in exit 1.
- `RunFailsOnlyFromEnvironment`: once `main` has started `run`, the run can fail only through the environment. The causes are:
  - a removed path, and a `FileNotFoundError` only when a path really was removed after the check;
  - an unreadable path;
  - a failed or non-object model reply;
  - a store failure.

  It never fails through the general analysis, whose `build_messages` raises `NameError`, or through an empty document list. This holds because `main` always passes a non-empty requirement list, although the help text of the unused `--all-requirements` flag says the general extractor is the default.
- `Terminates`: `main` always ends.

What `AffirmativeAnswerRecorded` (run `analyser`) shows: a reply that answers as the prompt asks, affirming under the field the schema hint of `build_requirement_messages` names, is recorded fulfilled. The field is chosen both in `prompts.py` and in `extractor.py`, each with its own default `requirementMet`.

**What the violations show (the findings):**
1. `_parse_bool(primary) or _parse_bool(fulfilled)` falls back to `fulfilled` even when the configured field is an explicit false. So the reply `{businessContinuityPolicy: false, fulfilled: "yes"}` is recorded as fulfilled.
2. A reply that is valid JSON but not an object (for example `[]` or `null`) reaches `parsed.get`. That raises `AttributeError` and aborts the whole `analyse_requirements` call, losing every other requirement's answer. Spec 4.1 requires per-requirement isolation.
3. Requirement catalog entries X.1.1.7 and X.1.1.6 share the id E63 (`requirements.py` 48). A run over the whole catalog returns two evidence items with requirement id E63. Spec 3 says ids are unique.
4. `build_evidence_config` replaces `base_url` with `--evidence-url` after `EvidenceStoreConfig.from_env` has derived `token_endpoint` from the environment's base URL (`cli.py` 108, `evidence_store.py` 34-36). So `--evidence-url https://store` with no `AUTH_TOKEN_ENDPOINT` posts evidence to that store but asks `http://localhost:8080/v1/auth/token` (or the `CONFIRMATE_API_BASE` host) for the token, sending the client credentials there. `EVIDENCE_STORE_BASE`, which the flag's help names as its default, moves both.
5. A store error propagates out of `run`. The extraction result is then lost to the caller, although spec 7 says it is always returned.
6. With an empty snippet and a citation, `snippet` falls back to the citation. `raw` then becomes `"<citation>\nCitation: <citation>"` instead of `"Citation: <citation>"`.
7. Every payload is filed under `genericDocument`. This includes the evidence of `data` requirements such as E99.
8. `_strip_none` tests a dict entry for `None`, `{}` and `[]` before it strips inside it. So `{"b": {"b": null}}` becomes `{"b": {}}`, although spec 3 says placeholders are stripped recursively. The divergence is latent: `build_evidence_payloads` builds no entry that only empties after stripping.

Observed while modelling:
- `build_messages` formats the undefined name `SYSTEM_PROMPT`, so general analysis always raises `NameError` (`Analyser.Analyse`). The `cli` run's `RunFailsOnlyFromEnvironment` shows that `main` never takes that path.
- `--api-key` and `--base-url` cannot replace the environment variables, because `build_config` applies them after `from_env` has raised (`cli.py` 95).
- The cached token is never refreshed: a token that expires mid-batch fails the batch with a 401. Spec 9 leaves this open. The `client` run includes `ExpireToken` at any point, and its properties show the failure is reported honestly (the batch never returns with payloads missing).
- `main([])` parses `sys.argv[1:]`, because an empty list is falsy (`cli.py` 123).

**Bounds.**
- `MCAnalyser`:
  - three requirements: two catalog entries, one of kind `data`, plus one without `response_field_name`;
  - document lists of length 0 to 2;
  - 57 replies per requirement: every pair of seven verdict values under the configured field and `fulfilled`, six variants of the text fields, plus undecodable and non-object replies.
- `MCStoreClient`: batches of 1 and 3 payloads, with every answer of both endpoints.
- `MCPipeline`:
  - three requirements and one to two documents, so the wrap-around `idx % len` happens;
  - a missing path, an unreadable path before a missing one (the first failure wins), and an empty path list;
  - five replies per requirement;
  - every endpoint answer.

- `MCCli`:
  - two catalog entries (E83 and the `data` entry E99);
  - the paths `D1` (present), `Gone` (missing at start) and `Dir` (present but unreadable). `D1` can also be removed later;
  - 576 invocations: 4 file lists (none, `D1`, `D1 Gone`, `Dir D1`) × test-evidence × 4 push settings (unset, flag, `YES`, ` yes` with a blank) × 2 auth values × 3 `--test-requirement` values (none, the key X.1.1.13, and E99, which is an id and not a key, so it is unknown) × 3 environments;
  - three replies per requirement and every endpoint answer.
- `MCCli_catalog`: the same, over all 19 catalog entries.
- `MCCli_token`: one path and one requirement, push on, `--test-evidence` on or off, `--evidence-url` unset or `store.example`, and five store environments: nothing set, `EVIDENCE_STORE_BASE`, `CONFIRMATE_API_BASE`, an empty `CONFIRMATE_API_BASE` (which `getenv` does not replace by the default) and an explicit `AUTH_TOKEN_ENDPOINT`. The `cli` run keeps the store environment unset so that its liveness check stays small; the configuration is a pure function of the invocation and does not change the run's control.
- `MCStripNone`: every dict over two keys and list of up to one element whose values are scalars (`None`, `false`, `"x"`) or dicts and lists of those. That is 1,122 inputs of depth two.

The system is sequential, so longer batches only repeat the same step. Three payloads are enough to reach a failure at the first, the middle and the last payload.

**Fairness.**
- Only `Close` is weakly fair. Python's `with` statement always runs `__exit__` when `send_batch` returns or raises. That the connection is then released is this fairness itself, so no property restates it; the fairness matters because `Cli` and `Pipeline` wait for the closed connection before `run` returns or raises.
- No fairness is assumed of the model or of the endpoints.
- `Cli`: every step of `main` (`MainStep`, which includes the pipeline's, the client's and both endpoints' steps) is weakly fair. `main` runs sequentially on one thread, and every HTTP request has the client's 15 s timeout (`evidence_store.py` 148). So an endpoint answers, at worst with a transport error. `RemoveFile` is not fair: a file need never be removed.
- Runs are single calls that end, so deadlock checking is off. A finished call has no next step.

**Type invariants.** `Analyser` and `StoreClient` have one each. `Pipeline` and `Cli` have none of their own: their variables take values from literals, and the analyser's invariant already covers the verdicts they carry.

**Mutants.** Each property of a passing run is shown to be breakable by a plausible bug of the code (`PROJECT.json` `mutants`):
- `ParseBool` judging strings by truthiness;
- the `None -> False` default dropped;
- `continue` on a decode error;
- the `access_token` check dropped;
- a retry on a transport error;
- the batch loop stopping one payload short;
- the document index shifted by one;
- `main` returning 0 on an `EvidenceStoreError`;
- `main` without its defensive `except Exception`;
- the parser's verdict field defaulting to `fulfilled` instead of the prompt's `requirementMet`;
- `main` defaulting to the general extractor, as the `--all-requirements` help describes.

## 4. Not modelled, and the plan

- **`parse_args` and the argument overrides of `build_config`**: argparse and assignments with no decision. Invocations enumerate their results instead.
- **Client id, secret, tool id and target id** in `EvidenceStoreConfig`: defaults and overrides with no decision; no property tells them apart.
- **The OpenAI client's construction (`llm.py` 13-15)** has no decision. `chat` is modelled as a reply or a raise (`ChatRaised`); `NotJson` stands for an empty `content`.
- **`build_config`'s overrides**: `--api-key` and `--base-url` are applied only after `ModelConfig.from_env` has run, so they cannot prevent its `ConfigError`. `BuildConfig` models that order. No run asks whether the flags alone should suffice, because the argument surface is outside the spec (section 1).
- **Prompt text, `concatenate_documents`, PDF page text**: formatting and I/O. Their effect on control is an environment choice: a reply, or a missing file.

Still open for later sittings:
- a token-refresh design (spec 9) as an alternative `StoreClient` refining `EvidenceSink`;
- larger `MCCli` instances over more catalog entries.
