----------------------------- MODULE Catalogue -----------------------------
(* The repositories of persistence/repositories/: for each class the table, the *)
(* queries that callers can make and the calls that write.  A query is the set  *)
(* of columns it compares with values and whether it leaves out rows that are   *)
(* soft-deleted ("active") or revoked ("open"); ranges of time, status, search  *)
(* text, ordering, page windows, counts and sums are left out.  So are queries   *)
(* that name an attribute the model does not have and raise whenever they are   *)
(* called: UserRepository's by is_logged_in, ConsentRepository's by type.       *)
EXTENDS Schema

Query(columns, rows) == {[by |-> columns, rows |-> rows, of |-> "all"]}
One(columns)  == Query(columns, "one")    \* find_by_..., get_by_...: the record
Some(columns) == Query(columns, "first")  \* the latest of several
Many(columns) == Query(columns, "list")

Active(queries) == {[q EXCEPT !.of = "active"] : q \in queries}  \* is_deleted IS false
Open(queries)   == {[q EXCEPT !.of = "open"] : q \in queries}    \* revoked_at IS NULL

ById  == One({"id"})
ByUrn == One({"urn"})

Repository(table, queries, calls) ==
    [table |-> table, queries |-> queries, calls |-> calls]

-----------------------------------------------------------------------------
HealthcareFacilityRepository ==
    Repository("healthcare_facility",
        Active(ById \cup ByUrn \cup One({"facility_code"}) \cup Many({"organization_id"})),
        {"create"})

HealthcarePatientRepository ==
    Repository("healthcare_patient",
        Active(ById \cup ByUrn \cup One({"organization_id", "patient_key"})
               \cup One({"user_id"}) \cup Many({"organization_id"})),
        {"create"})

HealthcarePractitionerRepository ==
    Repository("healthcare_practitioner",
        Active(ById \cup ByUrn \cup One({"organization_id", "practitioner_key"})
               \cup One({"national_provider_id"}) \cup Many({"organization_id"})),
        {"create"})

ClinicalEncounterRepository ==
    Repository("clinical_encounter",
        Active(ById \cup ByUrn \cup One({"facility_id", "encounter_key"})
               \cup Many({"patient_id"}) \cup Many({"facility_id"})),
        {"create"})

ClinicalEncounterParticipantRepository ==
    Repository("clinical_encounter_participant",
        Active(ById \cup ByUrn \cup One({"encounter_id", "practitioner_id"})
               \cup Many({"encounter_id"}) \cup Many({"practitioner_id"})),
        {"create"})

IndustrialFacilityRepository ==
    Repository("industrial_facility",
        Active(ById \cup ByUrn \cup One({"facility_code"}) \cup Many({"organization_id"})),
        {"create"})

IndustrialAssetRepository ==
    Repository("industrial_asset",
        Active(ById \cup ByUrn \cup Many({"facility_id"}) \cup Many({"parent_asset_id"})
               \cup Many({"facility_id", "parent_asset_id"})
               \cup Many({"facility_id", "asset_kind"})),
        {"create"})

IndustrialIoTDeviceRepository ==
    Repository("industrial_iot_device",
        Active(ById \cup ByUrn \cup One({"facility_id", "device_key"})
               \cup Many({"facility_id"}) \cup Many({"asset_id"})),
        {"create"})

IndustrialTelemetryChannelRepository ==
    Repository("industrial_telemetry_channel",
        Active(ById \cup ByUrn \cup One({"device_id", "channel_key"}) \cup Many({"device_id"})),
        {"create"})

IndustrialTelemetrySampleRepository ==
    Repository("industrial_telemetry_sample",
        ById \cup ByUrn \cup One({"source_event_id"})
        \cup Many({"channel_id"}) \cup Some({"channel_id"}),
        {"create"})

CrowdfundingCampaignRepository ==
    Repository("crowdfunding_campaign",
        Active(ById \cup ByUrn \cup One({"creator_user_id", "slug"})
               \cup Many({"creator_user_id"}) \cup Many({"status"})),
        {"create"})

CrowdfundingRewardRepository ==
    Repository("crowdfunding_reward",
        Active(ById \cup ByUrn \cup Many({"campaign_id"})) \cup Many({"campaign_id"}),
        {"create"})

CrowdfundingPledgeRepository ==
    Repository("crowdfunding_pledge",
        ById \cup ByUrn \cup One({"idempotency_key"})
        \cup Many({"campaign_id"}) \cup Many({"backer_user_id"})
        \cup Many({"campaign_id", "status"}),
        {"create"})

OrganizationRepository ==
    Repository("organizations", ById \cup ByUrn \cup Many({"owner_id"}), {"create"})

OrganizationMemberRepository ==
    Repository("organization_members",
        One({"organization_id", "user_id"}) \cup Many({"organization_id"})
        \cup Many({"user_id"}),
        {"create", "set", "delete"})

OrganizationInviteRepository ==
    Repository("organization_invites",
        ById \cup One({"token"}) \cup Open(Many({"organization_id"})),
        {"create", "end", "delete"})

ProductRepository ==
    Repository("product", ById \cup ByUrn \cup Many({}), {"create", "set", "delete"})

InvoiceRepository ==
    Repository("invoices",
        ById \cup One({"provider_id", "external_id"}) \cup Many({"user_id"}),
        {"create", "set"})

PaymentTransactionRepository ==
    Repository("payment_transaction", Many({"user_id"}), {})

PlanRepository == Repository("plans", One({"plan_code"}) \cup Many({}), {})

CouponRepository == Repository("coupons", One({"code"}), {})

DocumentRepository ==
    Repository("documents",
        ById \cup Many({"user_id"}) \cup Many({"session_id"}) \cup Many({"document_type"}),
        {"create", "delete"})

\* Mutant: the list by plan is not filtered.
SubscriptionRepositoryUnfiltered ==
    Repository("subscriptions",
        Active(ById \cup ByUrn \cup Many({}) \cup Many({"user_id"}) \cup Some({"user_id"}))
        \cup Many({"plan_code"}),
        {"create", "set", "soft_delete"})

SubscriptionRepository ==
    Repository("subscriptions",
        Active(ById \cup ByUrn \cup Many({}) \cup Many({"plan_code"})
               \cup Many({"user_id"}) \cup Some({"user_id"})),
        {"create", "set", "soft_delete"})

InterviewReminderRepository ==
    Repository("reminder",
        ById \cup Many({"user_id"}) \cup Open(Many({"user_id"}) \cup Many({})),
        {"create", "end", "delete"})

NotificationHistoryRepository ==
    Repository("notification_history",
        ById \cup Many({"user_id"}) \cup Open(Many({"user_id"})),
        {"create", "end", "end_all"})

AuditRepository ==
    Repository("audit_log",
        Many({}) \cup Many({"actor_id"}) \cup Many({"action"}) \cup Many({"resource"})
        \cup Many({"resource_id"}),
        {"create"})

ProfileRepository ==
    Repository("profile", One({"user_id"}), {"create", "upsert"})

SessionRepository ==
    Repository("sessions", ById \cup Many({}) \cup Many({"user_id"}),
        {"create", "set", "delete"})

UserRepository ==
    Repository("user",
        Active(One({"email"}) \cup One({"phone"}) \cup One({"email", "password"})
               \cup Many({})) \cup Many({}),
        {})

ConversationRepository ==
    Repository("conversations", ById \cup Many({"user_id"}), {"create"})

ApiKeyRepository ==
    Repository("api_keys",
        Open(One({"key_hash"}) \cup Many({"user_id"})) \cup ById \cup Many({"user_id"}),
        {"create", "set_open", "set", "end", "end_all"})

RefreshTokenRepository ==
    Repository("refresh_token",
        One({"jti"}) \cup Many({"user_id"}) \cup Open(Many({"user_id"})),
        {"create", "end_all"})

UserLlmProviderKeyRepository ==
    Repository("user_llm_provider_keys",
        One({"user_id", "provider"}) \cup Many({"user_id"}),
        {"upsert", "delete"})

UserNotificationPreferenceRepository ==
    Repository("user_notification_preference",
        One({"user_id", "channel", "category"}) \cup Many({"user_id"}),
        {"upsert"})

UserUsageAlertPreferenceRepository ==
    Repository("user_usage_alert_preference", One({"user_id"}), {"upsert"})

WebhookRepository ==
    Repository("webhooks", ById \cup Many({}) \cup Many({"user_id"}),
        {"create", "set", "delete"})

WebhookDeliveryRepository ==
    Repository("webhook_deliveries",
        One({"webhook_id", "event_id"}) \cup ById \cup Many({}) \cup Many({"webhook_id"}),
        {"get_or_create", "set"})
-----------------------------------------------------------------------------
Repositories ==
    {HealthcareFacilityRepository, HealthcarePatientRepository,
     HealthcarePractitionerRepository, ClinicalEncounterRepository,
     ClinicalEncounterParticipantRepository, IndustrialFacilityRepository,
     IndustrialAssetRepository, IndustrialIoTDeviceRepository,
     IndustrialTelemetryChannelRepository, IndustrialTelemetrySampleRepository,
     CrowdfundingCampaignRepository, CrowdfundingRewardRepository,
     CrowdfundingPledgeRepository, OrganizationRepository,
     OrganizationMemberRepository, OrganizationInviteRepository, ProductRepository,
     InvoiceRepository, PaymentTransactionRepository, PlanRepository,
     CouponRepository, DocumentRepository, SubscriptionRepository,
     InterviewReminderRepository, NotificationHistoryRepository, AuditRepository,
     ProfileRepository, SessionRepository, UserRepository, ConversationRepository,
     ApiKeyRepository, RefreshTokenRepository, UserLlmProviderKeyRepository,
     UserNotificationPreferenceRepository, UserUsageAlertPreferenceRepository,
     WebhookRepository, WebhookDeliveryRepository}
=============================================================================
