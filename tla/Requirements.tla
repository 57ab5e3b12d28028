---------------------------- MODULE Requirements ----------------------------
(***************************************************************************)
(* The requirement catalog (requirements.py): the REQUIREMENTS table from  *)
(* catalog key to RequirementPrompt, and its lookups.                      *)
(*                                                                         *)
(* A dict keeps insertion order, so the table is a sequence of entries     *)
(* <<key, prompt>>.  A prompt keeps the fields the analyser and the        *)
(* payload builder read: id, name, resource_type, response_field_name.    *)
(* The requirement statement `name` is abridged to its catalog key and the *)
(* extraction instruction `prompt` is left out (only the prompt text       *)
(* depends on it).                                                         *)
(***************************************************************************)
EXTENDS JsonValues

\* RequirementPrompt(id, name, prompt, resource_type="genericDocument",
\*                   response_field_name=None)
RequirementPrompt(id, name, resourceType, field) ==
    [id |-> id, name |-> name, resource_type |-> resourceType,
     response_field_name |-> field]

Entry(key, id, resourceType, field) ==
    <<key, RequirementPrompt(id, key, resourceType, field)>>

G == "genericDocument"

\* REQUIREMENTS, in the order of the dict literal
REQUIREMENTS ==
    << Entry("X.1.1.9.1",  "E83",  G, "businessContinuityPolicy"),
       Entry("X.1.1.9.2",  "E81",  G, "availabilityProtection"),
       Entry("X.1.1.8",    "E79",  G, "dataMinimizationPolicy"),
       Entry("X.1.1.7",    "E63",  G, "integrityProtection"),
       Entry("X.1.1.6",    "E63",  G, "confidentialityProtection"),
       Entry("X.1.1.5",    "E67",  G, "accessControlMechanisms"),
       Entry("X.1.1.4",    "E61",  G, "securityUpdateMechanisms"),
       Entry("X.1.1.3",    "E55",  G, "secureByDefaultConfiguration"),
       Entry("X.1.1.2.1",  "E51",  G, "securityTestingPolicies"),
       Entry("X.1.1.2.2",  "E52",  G, "penetrationTestingResults"),
       Entry("X.1.1.1",    "E45",  G, "cybersecurityRiskManagement"),
       Entry("X.1.1.10",   "E87",  G, "impactMinimizationMeasures"),
       Entry("X.1.1.11",   "E3",   G, "securityBaseline"),
       Entry("X.1.1.12.1", "E93",  G, "dataBackups"),
       Entry("X.1.1.12.2", "E91",  G, "dataLeakagePrevention"),
       Entry("X.1.1.12.3", "E92",  G, "segregationOfDuties"),
       Entry("X.1.1.13",   "E99",  "data", "securityLoggingAndMonitoring"),
       Entry("X.1.1.14",   "E101", G, "secureDataRemoval"),
       Entry("X.1.1.14.2", "E102", G, "secureDataTransfer") >>

\* get_requirement(key): REQUIREMENTS.get(key)
GetRequirement(catalog, key) ==
    IF \E i \in 1..Len(catalog) : catalog[i][1] = key
      THEN (CHOOSE e \in {catalog[i] : i \in 1..Len(catalog)} : e[1] = key)[2]
      ELSE None

\* list_requirements(): list(REQUIREMENTS.values())
ListRequirements(catalog) == [i \in 1..Len(catalog) |-> catalog[i][2]]

=============================================================================
