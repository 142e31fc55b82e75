---------------------------- MODULE SystemPages ----------------------------
(***************************************************************************)
(* The certificate page (ShieldPage.tsx) and the settings page              *)
(* (SettingsPage.tsx) with their dialogs.                                   *)
(***************************************************************************)
EXTENDS PageControls

(***************************************************************************)
(* ShieldPage.tsx.  Its three dialogs turn onClose into nothing while their *)
(* mutation is pending, so they are held like a ConfirmDialog.              *)
(***************************************************************************)
UploadCertDialog   == Held(Form("upload", "useUploadCertificate", "none"))
GenerateCsrDialog  == Then(Held(Form("generateCsr", "useGenerateCsr", "none")), "stay")
CaTransitionWizard == Held(Form("transition", "useTransitionActivate", "none"))

\* Only a certificate that is not active can be activated or deleted; the typed name confirms.
CertificateConfirms ==
  {Confirm("activate", "useActivateCertificate", "picked"),
   Confirm("delete", "useDeleteCertificate", "picked")}

\* One mutation serves every row of the CSR tab and locks all of them.
CsrButtons == {Locked(Button("resign", "useResignCsr", "none"))}

ShieldPage ==
  LET keys == {"shield.overview", "shield.certificates", "shield.csr"} IN
  Page(keys, {}, keys,
       {UploadCertDialog, GenerateCsrDialog, CaTransitionWizard} \cup CertificateConfirms
         \cup CsrButtons,
       {"certificate", "elsewhere"})

\* CertDetailModal.tsx over the page, with a query of its own.
CertDetailModal ==
  Page({"shield.overview", "shield.certificates", "shield.csr", "shield.certificate"}, {}, {}, {},
       {"shield"})

(***************************************************************************)
(* SettingsPage.tsx.                                                        *)
(***************************************************************************)
\* SettingValueEditor.tsx is edited in place: Enter saves and Escape leaves the field
\* whether or not the save before is pending, although the two buttons are disabled then.
SettingValueEditor == Eager(Form("editSetting", "useUpdateSetting", "none"))

\* Locked by the mutation of its own setting only.
ResetToDefault == Button("resetSetting", "useUpdateSetting", "none")

\* Enter in the address or number field sends again while a test is pending; the channel
\* test has only its button.  The SMS and channel tests stay open to show their result.
SmtpTestDialog          == Eager(Form("smtpTest", "useSmtpTest", "none"))
SmsTestDialog           == Eager(Then(Form("smsTest", "useSmsTest", "none"), "stay"))
NotificationsTestDialog == Then(Form("channelTest", "useNotificationsTest", "none"), "stay")

SettingsPage ==
  Page({"settings.list", "settings.systemInfo"}, {}, {"settings.list", "settings.systemInfo"},
       {SettingValueEditor, ResetToDefault, SmtpTestDialog, SmsTestDialog,
        NotificationsTestDialog},
       {"elsewhere"})
=============================================================================
